---------------------------- MODULE Spec2Model ----------------------------
(***************************************************************************)
(* clipboard-search: the response collector (collect.js), the submitter    *)
(* (submit.js) and the parts of the API server (api.js) that call them.    *)
(*                                                                         *)
(* One run of one entry point is modelled: collectAll (library entry used  *)
(* by POST /collect), main (CLI entry of collect.js) or submitAll (POST    *)
(* /submit).  Response texts are strings; queries, page titles and slugs   *)
(* are sequences of one-character strings so that slugify can be computed  *)
(* character by character.  Time is in milliseconds, measured from the     *)
(* moment an extraction call computes its deadline.                        *)
(*                                                                         *)
(* Spec and SpecThrow follow one run step by step; SpecFair adds fairness  *)
(* to collectAll runs; SpecApi interleaves the collectAll calls of several *)
(* POST /collect requests sharing the clock and OUTPUT_DIR; SpecPage       *)
(* follows one page under repeated evaluation of an extraction script;     *)
(* SpecSlug applies slugify to typed queries; SpecExtract follows          *)
(* collectAll calls with a timeout long enough for five polls; SpecSse     *)
(* lets an observer of GET /api/events connect and close during a run;    *)
(* SpecSearch follows one POST /search request through submitAll, its     *)
(* pause and collectAll; SpecFolders names run folders and lists them as   *)
(* GET /responses does; SpecViewer writes a result file and renders the    *)
(* body the viewer makes of it.                                            *)
(***************************************************************************)
EXTENDS Integers, Sequences, FiniteSets, TLC

(***************************************************************************)
(* Bounds of the model                                                     *)
(***************************************************************************)
MaxTabs == 2
MaxTimeoutSec == 8
MaxRequests == 2
MaxButtons == 2
MaxEvaluations == 3
MaxPieces == 5
MaxFolders == 3
MaxTextPieces == 3

(***************************************************************************)
(* Program constants (collect.js CONFIG)                                   *)
(***************************************************************************)
POLL_INTERVAL == 2000
STABLE_CHECKS == 3
SlugMaxLen == 60
MinQueryParamLen == 10
MinTitleLen == 5
MinSynthesisSources == 2
MinHeaderParts == 3
MsPerSecond == 1000

TimeoutNote == "\n\n> [Response may be incomplete - timed out]"
NoResponseBody == "*No response collected*"
Placeholder == <<"[","c","l","i","p","b","o","a","r","d"," ","q","u","e","r","y","]">>
TitleSep == <<" ","-"," ">>

Null == "<null>"
Absent == "<absent>"
NoTab == [id |-> 0]

(***************************************************************************)
(* Registries                                                              *)
(***************************************************************************)
ENGINES ==
  << [name |-> "ChatGPT",          slug |-> "chatgpt",          urlMatch |-> "chatgpt.com"],
     [name |-> "Claude",           slug |-> "claude",           urlMatch |-> "claude.ai"],
     [name |-> "Perplexity",       slug |-> "perplexity",       urlMatch |-> "perplexity.ai"],
     [name |-> "Google AI Studio", slug |-> "google-ai-studio", urlMatch |-> "aistudio.google.com"] >>

SUBMITTERS ==
  << [name |-> "ChatGPT",          urlMatch |-> "chatgpt.com",         awaitPromise |-> FALSE],
     [name |-> "Google AI Studio", urlMatch |-> "aistudio.google.com", awaitPromise |-> TRUE],
     [name |-> "Claude",           urlMatch |-> "claude.ai",           awaitPromise |-> FALSE] >>

NumEngines == Len(ENGINES)
NumSubmitters == Len(SUBMITTERS)

(***************************************************************************)
(* The environment: tabs the browser may list, texts a page may render,    *)
(* titles the fallback page may carry, time one evaluation may take.       *)
(***************************************************************************)
LongQuery == <<"W","h","a","t"," ","i","s"," ","T","L","A","+","?">>
LongQuery2 == <<"w","h","a","t"," ","i","s"," ","t","l","a">>
ShortQuery == <<"h","i">>
NoParam == <<>>

TabPool ==
  { [id |-> 1, type |-> "page",           host |-> "chatgpt.com",         path |-> "/",
     q |-> LongQuery, prompt |-> NoParam],
    [id |-> 2, type |-> "page",           host |-> "claude.ai",           path |-> "/new",
     q |-> ShortQuery, prompt |-> LongQuery],
    [id |-> 3, type |-> "page",           host |-> "perplexity.ai",       path |-> "/search",
     q |-> NoParam,   prompt |-> NoParam],
    [id |-> 4, type |-> "page",           host |-> "chatgpt.com",         path |-> "/c/2",
     q |-> LongQuery2, prompt |-> NoParam],
    [id |-> 5, type |-> "service_worker", host |-> "chatgpt.com",         path |-> "/sw.js",
     q |-> NoParam,   prompt |-> NoParam] }

TabLists ==
  UNION { { s \in [1..n -> TabPool] : \A i, j \in 1..n : i # j => s[i].id # s[j].id } :
          n \in 0..MaxTabs }

PageTexts == {"a", "b"}
EvalError == "<eval error>"
PollOutcomes == PageTexts \cup {"", EvalError}
EvalLatencies == {0, 3000}
TimeoutChoices == {MaxTimeoutSec \div 2, MaxTimeoutSec}

PageTitles ==
  { <<>>,
    <<"a","b","c">>,
    <<"T","L","A"," ","s","p","e","c"," ","-"," ","P","x">>,
    <<" ","-"," ","P","x">>,
    <<"l","o","n","g","e","r"," ","t","i","t","l","e"," ">> }


(***************************************************************************)
(* Text helpers (JavaScript string methods used by collect.js)             *)
(***************************************************************************)
UpperCase == <<"A","B","C","D","E","F","G","H","I","J","K","L","M",
               "N","O","P","Q","R","S","T","U","V","W","X","Y","Z">>
LowerCase == <<"a","b","c","d","e","f","g","h","i","j","k","l","m",
               "n","o","p","q","r","s","t","u","v","w","x","y","z">>
Digits == {"0","1","2","3","4","5","6","7","8","9"}

ToLowerChar(c) ==
  IF \E i \in 1..Len(UpperCase) : UpperCase[i] = c
    THEN LowerCase[CHOOSE i \in 1..Len(UpperCase) : UpperCase[i] = c]
    ELSE c

\* variant: letter case is kept
KeepCase(s) == s

ToLowerCase(s) == [i \in 1..Len(s) |-> ToLowerChar(s[i])]

IsSlugChar(c) == (\E i \in 1..Len(LowerCase) : LowerCase[i] = c) \/ c \in Digits

\* .replace(/[^a-z0-9]+/g, "-"): every run of other characters becomes one
\* hyphen, written where the run starts
CollapseNonAlnum(s) ==
  LET mark == [i \in 1..Len(s) |->
                 IF IsSlugChar(s[i]) THEN s[i]
                 ELSE IF i = 1 \/ IsSlugChar(s[i - 1]) THEN "-" ELSE ""]
  IN SelectSeq(mark, LAMBDA c : c # "")

\* .replace(/^c+/, "")
StripLeading(s, c) ==
  IF \A i \in 1..Len(s) : s[i] = c THEN <<>>
  ELSE SubSeq(s, CHOOSE i \in 1..Len(s) :
                   s[i] # c /\ \A j \in 1..(i - 1) : s[j] = c, Len(s))

\* .replace(/c+$/, "")
StripTrailing(s, c) ==
  IF \A i \in 1..Len(s) : s[i] = c THEN <<>>
  ELSE SubSeq(s, 1, CHOOSE i \in 1..Len(s) :
                      s[i] # c /\ \A j \in (i + 1)..Len(s) : s[j] = c)

Slice(s, n) == IF Len(s) > n THEN SubSeq(s, 1, n) ELSE s

\* variant: nothing is stripped after the cut at 60 characters
slugifyCutOnly(text) ==
  CHOOSE slug \in
    { Slice(t, SlugMaxLen) :
        t \in { StripTrailing(StripLeading(c, "-"), "-") :
                  c \in { CollapseNonAlnum(l) : l \in { ToLowerCase(text) } } } } : TRUE

\* every step is bound to its value before the next step reads it
slugify(text) ==
  CHOOSE slug \in
    { StripTrailing(Slice(t, SlugMaxLen), "-") :
        t \in { StripTrailing(StripLeading(c, "-"), "-") :
                  c \in { CollapseNonAlnum(l) : l \in { ToLowerCase(text) } } } } : TRUE

Trim(s) == StripTrailing(StripLeading(s, " "), " ")

\* Start index of the last separator that title.split(" - ") cuts at
\* (left-to-right, non-overlapping); 0 when the title holds none.
RECURSIVE LastSepFrom(_, _, _)
LastSepFrom(s, i, last) ==
  IF i + Len(TitleSep) - 1 > Len(s) THEN last
  ELSE IF SubSeq(s, i, i + Len(TitleSep) - 1) = TitleSep
         THEN LastSepFrom(s, i + Len(TitleSep), i)
         ELSE LastSepFrom(s, i + 1, last)

LastSep(s) == LastSepFrom(s, 1, 0)

(***************************************************************************)
(* Tab matching and query recovery                                         *)
(***************************************************************************)
\* variant: the last matching page tab is taken instead of the first
FindTabLast(tabs, urlMatch) ==
  IF \E i \in 1..Len(tabs) : tabs[i].type = "page" /\ tabs[i].host = urlMatch
    THEN tabs[CHOOSE i \in 1..Len(tabs) :
                /\ tabs[i].type = "page" /\ tabs[i].host = urlMatch
                /\ \A j \in (i + 1)..Len(tabs) :
                     ~(tabs[j].type = "page" /\ tabs[j].host = urlMatch)]
    ELSE NoTab

\* targets.find((t) => t.type === "page" && urlMatch.test(t.url))
FindTab(tabs, urlMatch) ==
  IF \E i \in 1..Len(tabs) : tabs[i].type = "page" /\ tabs[i].host = urlMatch
    THEN tabs[CHOOSE i \in 1..Len(tabs) :
                /\ tabs[i].type = "page" /\ tabs[i].host = urlMatch
                /\ \A j \in 1..(i - 1) : ~(tabs[j].type = "page" /\ tabs[j].host = urlMatch)]
    ELSE NoTab

\* url.searchParams.get("q") || url.searchParams.get("prompt") || ""
UrlParam(t) == IF Len(t.q) > 0 THEN t.q ELSE t.prompt

\* variant: any non-empty parameter counts, whatever its length
HasUrlQueryAnyLength(t) == t.type = "page" /\ Len(UrlParam(t)) > 0

HasUrlQuery(t) == t.type = "page" /\ Len(UrlParam(t)) > MinQueryParamLen

\* first loop of extractQuery; <<>> when no tab carries a usable parameter
UrlQuery(tabs) ==
  IF \E i \in 1..Len(tabs) : HasUrlQuery(tabs[i])
    THEN UrlParam(tabs[CHOOSE i \in 1..Len(tabs) :
                         HasUrlQuery(tabs[i]) /\ \A j \in 1..(i - 1) : ~HasUrlQuery(tabs[j])])
    ELSE <<>>

\* targets.find((t) => t.type === "page" && /perplexity\.ai\/search/.test(t.url))
PerpTab(tabs) ==
  IF \E i \in 1..Len(tabs) :
       tabs[i].type = "page" /\ tabs[i].host = "perplexity.ai" /\ tabs[i].path = "/search"
    THEN tabs[CHOOSE i \in 1..Len(tabs) :
                /\ tabs[i].type = "page" /\ tabs[i].host = "perplexity.ai"
                /\ tabs[i].path = "/search"
                /\ \A j \in 1..(i - 1) :
                     ~(tabs[j].type = "page" /\ tabs[j].host = "perplexity.ai"
                       /\ tabs[j].path = "/search")]
    ELSE NoTab

\* the title branch of extractQuery
QueryFromTitle(title) ==
  IF LastSep(title) > 0 THEN Trim(SubSeq(title, 1, LastSep(title) - 1))
  ELSE IF Len(title) > MinTitleLen THEN Trim(title)
  ELSE Placeholder

(***************************************************************************)
(* Run folder naming                                                       *)
(***************************************************************************)
\* new Date().toISOString().replace(/[:.]/g, "-").slice(0, 19): the instant cut
\* at the second (the 19 characters end with the seconds field)
Timestamp(ms) == ms \div MsPerSecond

\* `${ts}_${slug}`
FolderName(ts, slug) == << ts, "_" >> \o slug

(***************************************************************************)
(* The API server: concurrent POST /collect requests, each running         *)
(* collectAll against the same OUTPUT_DIR and the same clock               *)
(***************************************************************************)
Requests == 1..MaxRequests

\* instants at which the clock is read
ClockReadings == {0, 500, 1000, 2500}

\* what extractQuery may return to a request
ApiQueries == {LongQuery, LongQuery2, Placeholder}

NoFolder == <<>>
NoBroadcast == [type |-> "none", run |-> 0]

\* a request that has not arrived yet
IdleRun == [pc |-> "idle", query |-> <<>>, folderName |-> NoFolder, okCount |-> 0,
            synthesis |-> "none", synthesisFile |-> FALSE,
            viewerSynthesis |-> FALSE]

(***************************************************************************)
(* A page under extraction: the number of 'Show more' buttons it shows,    *)
(* the click events its buttons have received, the text it renders         *)
(***************************************************************************)
BlankPage == [site |-> 1, showMore |-> 0, clicks |-> 0, text |-> ""]

(***************************************************************************)
(* A query typed piece by piece and handed to slugify                      *)
(***************************************************************************)
NoSlugRun == [text |-> <<>>, pieces |-> 0, slug |-> <<>>, applied |-> 0]

(***************************************************************************)
(* State                                                                   *)
(***************************************************************************)
VARIABLES
  entry,          \* entry point of this run: "collectAll", "main" or "submitAll"
  doSynthesize,   \* opts.doSynthesize !== false
  timeoutSec,     \* opts.timeout (seconds)
  pc,             \* position of the run
  listAttempts,   \* calls of CDP.List made
  targets,        \* the tab list CDP.List returned
  query,          \* result of extractQuery
  idx,            \* position in ENGINES (or SUBMITTERS)
  opened,         \* number of CDP sessions opened so far; a session's id is its rank
  open,           \* ids of the sessions currently open
  client,         \* id of the session of the call in progress, 0 when it holds none
  lastText,       \* extractFromTab
  stableCount,    \* extractFromTab
  now,            \* Date.now(), relative to the start of the extraction call
  deadline,       \* extractFromTab
  target,         \* id of the tab handed to the extractFromTab call, 0 outside a call
  polls,          \* evaluations of the extraction script made by this call
  lastPoll,       \* what the previous evaluation of this call gave (Null before the first)
  prevPoll,       \* what the evaluation before that one gave
  sameRun,        \* length of the current run of consecutive evaluations giving the same non-empty text
  lastSeen,       \* last non-empty text an evaluation of this call gave, "" if none
  run3,           \* first text that three consecutive evaluations of this call gave, "" if none
  ret,            \* value extractFromTab returned (Null for null)
  retKind,        \* which return statement produced it
  dirCreated,     \* the run directory exists
  folderName,     \* slug part of the directory name
  files,          \* file writes into the run directory, in order: [name, body]
  responses,      \* collectAll's responses array
  responseFiles,  \* engines handed to synthesize
  events,         \* calls of onProgress, in order
  synthCalls,     \* invocations of the external synthesis process
  synthesisFile,  \* result.synthesisFile is set
  viewerFile,     \* result.viewerFile is set
  submitted,      \* submitAll's results array
  activations,    \* evaluations of activation scripts, per submitter position
  clockMs,        \* wall clock of the machine (Date), in milliseconds
  runs,           \* API server: the collectAll call of each POST /collect request
  disk,           \* API server: files under OUTPUT_DIR, [dir, name, by]
  lastBroadcast,  \* API server: the latest call of sseBroadcast, [type, run]
  page,           \* a page an extraction script is evaluated in
  evaluated,      \* evaluations of the extraction script made in that page
  slugRun,        \* a query being typed and the slug made of it
  sseClients,     \* API server: responses of the open GET /api/events requests
  sseClosed,      \* responses whose request has closed
  search,         \* API server: the POST /search request, [step, status]
  outputDir,      \* API server: run folders under OUTPUT_DIR and the last GET /responses listing
  viewed          \* a result file as written and the body generateViewer renders of it

vars == << entry, doSynthesize, timeoutSec, pc, listAttempts, targets, query, idx,
           opened, open, client, lastText, stableCount, now, deadline, polls,
           lastPoll, prevPoll, sameRun, lastSeen, run3, ret, retKind, dirCreated, folderName, files,
           responses, responseFiles, events, synthCalls, synthesisFile, viewerFile,
           submitted, activations, target, clockMs, runs, disk, lastBroadcast, page,
           evaluated, slugRun, sseClients, sseClosed, search, outputDir, viewed >>

inputVars == << entry, doSynthesize, timeoutSec >>
sessionVars == << opened, open, client >>
pollVars == << lastText, stableCount, now, deadline, polls, lastPoll, prevPoll, sameRun, lastSeen,
              run3, target >>
outputVars == << dirCreated, folderName, files, responses, responseFiles, events,
                 synthCalls, synthesisFile, viewerFile >>
submitVars == << submitted, activations >>
apiVars == << clockMs, runs, disk, lastBroadcast, outputDir >>
pageVars == << page, evaluated >>
viewVars == << viewed >>
slugVars == << slugRun >>
sseVars == << sseClients, sseClosed >>
searchVars == << search >>
callVars == << inputVars, pc, listAttempts, targets, query, idx, sessionVars, pollVars,
               ret, retKind, outputVars, submitVars >>

runVars == << callVars, sseVars, searchVars >>

Entries == {"collectAll", "main", "submitAll"}

\* what the caller may pass as opts.doSynthesize (POST /collect: body.synthesize)
SynthesizeOptions == {"true", "false", Absent}

\* const doSynthesize = opts.doSynthesize !== false
DoSynthesizeOf(opt) == opt # "false"

\* the state before the entry point runs; timeouts: the values opts.timeout may have
InitRun(timeouts) ==
  /\ entry \in Entries
  /\ doSynthesize \in (IF entry = "collectAll"
                         THEN { DoSynthesizeOf(opt) : opt \in SynthesizeOptions }
                         ELSE {TRUE})
  /\ timeoutSec \in (IF entry = "submitAll" THEN {MaxTimeoutSec} ELSE timeouts)
  /\ pc = "start"
  /\ listAttempts = 0
  /\ targets = <<>>
  /\ query = <<>>
  /\ idx = 1
  /\ opened = 0
  /\ open = {}
  /\ client = 0
  /\ lastText = ""
  /\ stableCount = 0
  /\ now = 0
  /\ deadline = 0
  /\ polls = 0
  /\ lastPoll = Null
  /\ prevPoll = Null
  /\ sameRun = 0
  /\ lastSeen = ""
  /\ run3 = ""
  /\ ret = Null
  /\ retKind = "none"
  /\ dirCreated = FALSE
  /\ folderName = <<>>
  /\ files = <<>>
  /\ responses = <<>>
  /\ responseFiles = <<>>
  /\ events = <<>>
  /\ synthCalls = 0
  /\ synthesisFile = FALSE
  /\ viewerFile = FALSE
  /\ submitted = <<>>
  /\ activations = [i \in 1..NumSubmitters |-> 0]
  /\ target = 0
  /\ clockMs = 0
  /\ runs = [r \in Requests |-> IdleRun]
  /\ disk = {}
  /\ lastBroadcast = NoBroadcast
  /\ page = BlankPage
  /\ evaluated = 0
  /\ slugRun = NoSlugRun
  /\ sseClients = {}
  /\ sseClosed = {}
  /\ outputDir = [folders |-> {}, listed |-> <<>>]
  /\ viewed = [kind |-> "none", text |-> <<>>, file |-> <<>>, body |-> <<>>,
               rendered |-> FALSE]

\* a call made directly, outside a POST /search request
InitWith(timeouts) ==
  InitRun(timeouts) /\ search = [step |-> "none", status |-> 0]

Init == InitWith(TimeoutChoices)

(***************************************************************************)
(* Remote Page Client: CDP(...) and client.close()                         *)
(***************************************************************************)
\* client = await CDP({ target, ... }) succeeded
OpenSession ==
  /\ opened' = opened + 1
  /\ open' = open \cup {opened + 1}
  /\ client' = opened + 1

\* variant: the handle is dropped without closing the session
CloseSessionLeak ==
  /\ open' = open
  /\ client' = 0
  /\ opened' = opened

\* finally { if (client) try { await client.close(); } catch (_) {} }
CloseSession ==
  /\ open' = open \ {client}
  /\ client' = 0
  /\ opened' = opened

\* variant: the write is buffered in memory and never reaches the directory
WriteFileBuffered(fs, name, body) == fs

\* fs.writeFileSync(path, body): the writes of the run, in order
WriteFile(fs, name, body) == Append(fs, [name |-> name, body |-> body])

FileExists(fs, name) == \E i \in 1..Len(fs) : fs[i].name = name

\* variant: engines without a tab are not reported
EmitSkipsNoTab(evs, ev) == IF ev.status = "no_tab" THEN evs ELSE Append(evs, ev)

\* onProgress(type, data)
Emit(evs, ev) == Append(evs, ev)

(***************************************************************************)
(* DISCOVER_TABS                                                           *)
(***************************************************************************)
ListTabs ==
  /\ pc = "start"
  /\ \E tabs \in TabLists : targets' = tabs
  /\ listAttempts' = listAttempts + 1
  /\ pc' = IF entry = "submitAll" THEN "submit" ELSE "extractQuery"
  /\ UNCHANGED << inputVars, apiVars, pageVars, viewVars, slugVars, sseVars, searchVars, query, idx, sessionVars, pollVars, ret,
                  retKind, outputVars, submitVars >>

\* variant: a failed listing is tried once more before giving up
ListTabsFailsRetries ==
  /\ pc = "start"
  /\ listAttempts' = listAttempts + 1
  /\ pc' = IF listAttempts < 1 THEN "start" ELSE "aborted"
  /\ UNCHANGED << inputVars, apiVars, pageVars, viewVars, slugVars, sseVars, searchVars, targets, query, idx, sessionVars,
                  pollVars, ret, retKind, outputVars, submitVars >>

\* CDP.List rejects (ECONNREFUSED): collectAll and submitAll reject, main exits 1
ListTabsFails ==
  /\ pc = "start"
  /\ listAttempts' = listAttempts + 1
  /\ pc' = "aborted"
  /\ UNCHANGED << inputVars, apiVars, pageVars, viewVars, slugVars, sseVars, searchVars, targets, query, idx, sessionVars,
                  pollVars, ret, retKind, outputVars, submitVars >>

(***************************************************************************)
(* EXTRACT_QUERY                                                           *)
(***************************************************************************)
QueryFromUrl ==
  /\ pc = "extractQuery"
  /\ UrlQuery(targets) # <<>>
  /\ query' = UrlQuery(targets)
  /\ pc' = "prepare"
  /\ UNCHANGED << inputVars, apiVars, pageVars, viewVars, slugVars, sseVars, searchVars, listAttempts, targets, idx, sessionVars,
                  pollVars, ret, retKind, outputVars, submitVars >>

QueryNoFallbackTab ==
  /\ pc = "extractQuery"
  /\ UrlQuery(targets) = <<>>
  /\ PerpTab(targets).id = 0
  /\ query' = Placeholder
  /\ pc' = "prepare"
  /\ UNCHANGED << inputVars, apiVars, pageVars, viewVars, slugVars, sseVars, searchVars, listAttempts, targets, idx, sessionVars,
                  pollVars, ret, retKind, outputVars, submitVars >>

QueryConnect ==
  /\ pc = "extractQuery"
  /\ UrlQuery(targets) = <<>>
  /\ PerpTab(targets).id # 0
  /\ OpenSession
  /\ pc' = "queryTitle"
  /\ UNCHANGED << inputVars, apiVars, pageVars, viewVars, slugVars, sseVars, searchVars, listAttempts, targets, query, idx,
                  pollVars, ret, retKind, outputVars, submitVars >>

QueryConnectFails ==
  /\ pc = "extractQuery"
  /\ UrlQuery(targets) = <<>>
  /\ PerpTab(targets).id # 0
  /\ query' = Placeholder
  /\ pc' = "prepare"
  /\ UNCHANGED << inputVars, apiVars, pageVars, viewVars, slugVars, sseVars, searchVars, listAttempts, targets, idx, sessionVars,
                  pollVars, ret, retKind, outputVars, submitVars >>

\* variant: the title session is left open when the title is returned
QueryTitleKeepsSession ==
  /\ pc = "queryTitle"
  /\ \E title \in PageTitles : query' = QueryFromTitle(title)
  /\ pc' = "prepare"
  /\ UNCHANGED << inputVars, apiVars, pageVars, viewVars, slugVars, sseVars, searchVars, listAttempts, targets, idx, sessionVars,
                  pollVars, ret, retKind, outputVars, submitVars >>

QueryTitle ==
  /\ pc = "queryTitle"
  /\ \E title \in PageTitles : query' = QueryFromTitle(title)
  /\ CloseSession
  /\ pc' = "prepare"
  /\ UNCHANGED << inputVars, apiVars, pageVars, viewVars, slugVars, sseVars, searchVars, listAttempts, targets, idx, pollVars,
                  ret, retKind, outputVars, submitVars >>

QueryTitleEvalFails ==
  /\ pc = "queryTitle"
  /\ query' = Placeholder
  /\ CloseSession
  /\ pc' = "prepare"
  /\ UNCHANGED << inputVars, apiVars, pageVars, viewVars, slugVars, sseVars, searchVars, listAttempts, targets, idx, pollVars,
                  ret, retKind, outputVars, submitVars >>

(***************************************************************************)
(* START of the per-run output: folder, prompt file, "started"             *)
(***************************************************************************)
\* variant: the payload is also written to the responses whose request has closed
EventToAllEver(type, engine, status, chars) ==
  [type |-> type, engine |-> engine, status |-> status, chars |-> chars,
   to |-> sseClients \cup sseClosed]

\* the payload of one onProgress call; to: the responses sseBroadcast writes it to
Event(type, engine, status, chars) ==
  [type |-> type, engine |-> engine, status |-> status, chars |-> chars,
   to |-> sseClients]

\* slugify, mkdirSync, writeFileSync(prompt.md); collectAll then calls onProgress("started")
CreateRunFolder ==
  /\ pc = "prepare"
  /\ folderName' = FolderName(Timestamp(clockMs), slugify(query))
  /\ dirCreated' = TRUE
  /\ files' = WriteFile(files, "prompt.md", query)
  /\ events' = IF entry = "collectAll" THEN Emit(events, Event("started", "", "", 0))
                                       ELSE events
  /\ idx' = 1
  /\ pc' = "engine"
  /\ UNCHANGED << inputVars, apiVars, pageVars, viewVars, slugVars, sseVars, searchVars, listAttempts, targets, query,
                  sessionVars, pollVars, ret, retKind, responses, responseFiles,
                  synthCalls, synthesisFile, viewerFile, submitVars >>

(***************************************************************************)
(* MATCH_TAB and extractFromTab                                            *)
(***************************************************************************)
EngineTab == FindTab(targets, ENGINES[idx].urlMatch)

NextEnginePc(i) == IF i >= NumEngines THEN "synth" ELSE "engine"

\* variant: an engine without a tab is passed over without a result, as in main
EngineNoTabSkips ==
  /\ pc = "engine"
  /\ EngineTab.id = 0
  /\ events' = IF entry = "collectAll"
                 THEN Emit(events, Event("engine_done", ENGINES[idx].name, "no_tab", 0))
                 ELSE events
  /\ pc' = NextEnginePc(idx)
  /\ idx' = idx + 1
  /\ UNCHANGED << inputVars, apiVars, pageVars, viewVars, slugVars, sseVars, searchVars, listAttempts, targets, query,
                  sessionVars, pollVars, ret, retKind, dirCreated, folderName, files,
                  responses, responseFiles, synthCalls, synthesisFile, viewerFile,
                  submitVars >>

\* if (!tab) { responses.push(no_tab); onProgress("engine_done"); continue; }
\* main only logs and continues
EngineNoTab ==
  /\ pc = "engine"
  /\ EngineTab.id = 0
  /\ responses' = IF entry = "collectAll"
                    THEN Append(responses, [engine |-> ENGINES[idx].name,
                                            status |-> "no_tab", chars |-> 0,
                                            text |-> Null, file |-> Absent])
                    ELSE responses
  /\ events' = IF entry = "collectAll"
                 THEN Emit(events, Event("engine_done", ENGINES[idx].name, "no_tab", 0))
                 ELSE events
  /\ pc' = NextEnginePc(idx)
  /\ idx' = idx + 1
  /\ UNCHANGED << inputVars, apiVars, pageVars, viewVars, slugVars, sseVars, searchVars, listAttempts, targets, query,
                  sessionVars, pollVars, ret, retKind, dirCreated, folderName, files,
                  responseFiles, synthCalls, synthesisFile, viewerFile, submitVars >>

\* client = await CDP(...); lastText = ""; stableCount = 0; deadline = now + timeout
Connect ==
  /\ pc = "engine"
  /\ EngineTab.id # 0
  /\ OpenSession
  /\ lastText' = ""
  /\ stableCount' = 0
  /\ now' = 0
  /\ deadline' = timeoutSec * 1000
  /\ polls' = 0
  /\ lastPoll' = Null
  /\ prevPoll' = Null
  /\ sameRun' = 0
  /\ lastSeen' = ""
  /\ run3' = ""
  /\ target' = EngineTab.id
  /\ ret' = Null
  /\ retKind' = "none"
  /\ pc' = "poll"
  /\ UNCHANGED << inputVars, apiVars, pageVars, viewVars, slugVars, sseVars, searchVars, listAttempts, targets, query, idx,
                  outputVars, submitVars >>

\* variant: the connection error is not caught and ends the run
ConnectFailsAborts ==
  /\ pc = "engine"
  /\ EngineTab.id # 0
  /\ pc' = "threw"
  /\ UNCHANGED << inputVars, apiVars, pageVars, viewVars, slugVars, sseVars, searchVars, listAttempts, targets, query, idx,
                  sessionVars, pollVars, ret, retKind, outputVars, submitVars >>

\* variant: an engine whose tab cannot be opened is recorded as having no tab
ConnectFailsAsNoTab ==
  /\ pc = "engine"
  /\ EngineTab.id # 0
  /\ responses' = IF entry = "collectAll"
                    THEN Append(responses, [engine |-> ENGINES[idx].name,
                                            status |-> "no_tab", chars |-> 0,
                                            text |-> Null, file |-> Absent])
                    ELSE responses
  /\ events' = IF entry = "collectAll"
                 THEN Emit(events, Event("engine_done", ENGINES[idx].name, "no_tab", 0))
                 ELSE events
  /\ pc' = NextEnginePc(idx)
  /\ idx' = idx + 1
  /\ UNCHANGED << inputVars, apiVars, pageVars, viewVars, slugVars, sseVars, searchVars, listAttempts, targets, query,
                  sessionVars, pollVars, ret, retKind, dirCreated, folderName, files,
                  responseFiles, synthCalls, synthesisFile, viewerFile, submitVars >>

\* CDP(...) rejects: catch (err) { return null; }, no client to close
ConnectFails ==
  /\ pc = "engine"
  /\ EngineTab.id # 0
  /\ ret' = Null
  /\ retKind' = "connect_error"
  /\ polls' = 0
  /\ lastPoll' = Null
  /\ prevPoll' = Null
  /\ sameRun' = 0
  /\ lastSeen' = ""
  /\ run3' = ""
  /\ target' = EngineTab.id
  /\ pc' = "record"
  /\ UNCHANGED << inputVars, apiVars, pageVars, viewVars, slugVars, sseVars, searchVars, listAttempts, targets, query, idx,
                  sessionVars, lastText, stableCount, now, deadline, outputVars,
                  submitVars >>

\* history of the evaluations of this call (not program state)
SameRunAfter(text) ==
  IF text = "" THEN 0 ELSE IF text = lastPoll THEN sameRun + 1 ELSE 1

LastSeenAfter(text) == IF text = "" THEN lastSeen ELSE text

Run3After(text) ==
  IF run3 = "" /\ SameRunAfter(text) >= 3 THEN text ELSE run3

\* variant: any non-empty text counts as a match
IsStablePollAnyText(text) == Len(text) > 0

\* variant: the text is compared with the previous poll's, not with lastText
IsStablePollSameAsPrevious(text) == Len(text) > 0 /\ text = lastPoll

\* text.length > 0 && text === lastText
IsStablePoll(text) == Len(text) > 0 /\ text = lastText

\* variant: the threshold is compared before the increment
ReachesThresholdLate(count) == count >= STABLE_CHECKS

\* stableCount >= STABLE_CHECKS after stableCount++
ReachesThreshold(count) == count + 1 >= STABLE_CHECKS

\* variant: the first captured text is kept
LastTextAfterKeepsFirst(text) == IF Len(lastText) > 0 THEN lastText ELSE text

\* variant: an empty text is captured too
LastTextAfterOverwrites(text) == text

\* the else branch: if (text.length > 0) lastText = text
LastTextAfter(text) == IF Len(text) > 0 THEN text ELSE lastText

\* a poll that matches lastText and reaches the threshold: return text
PollStable ==
  /\ pc = "poll"
  /\ now < deadline
  /\ \E text \in PageTexts \cup {""}, lat \in EvalLatencies :
       /\ IsStablePoll(text)
       /\ ReachesThreshold(stableCount)
       /\ stableCount' = stableCount + 1
       /\ ret' = text
       /\ retKind' = "stable"
       /\ now' = now + lat
       /\ lastPoll' = text
       /\ prevPoll' = lastPoll
       /\ sameRun' = SameRunAfter(text)
       /\ lastSeen' = LastSeenAfter(text)
       /\ run3' = Run3After(text)
  /\ polls' = polls + 1
  /\ CloseSession
  /\ pc' = "record"
  /\ UNCHANGED << inputVars, apiVars, pageVars, viewVars, slugVars, sseVars, searchVars, listAttempts, targets, query, idx,
                  lastText, deadline, target, outputVars, submitVars >>

\* a poll that does not end the loop, followed by sleep(POLL_INTERVAL)
PollContinue ==
  /\ pc = "poll"
  /\ now < deadline
  /\ \E text \in PageTexts \cup {""}, lat \in EvalLatencies :
       /\ IF IsStablePoll(text)
            THEN /\ ~ReachesThreshold(stableCount)
                 /\ stableCount' = stableCount + 1
                 /\ lastText' = lastText
            ELSE /\ stableCount' = 0
                 /\ lastText' = LastTextAfter(text)
       /\ now' = now + lat + POLL_INTERVAL
       /\ lastPoll' = text
       /\ prevPoll' = lastPoll
       /\ sameRun' = SameRunAfter(text)
       /\ lastSeen' = LastSeenAfter(text)
       /\ run3' = Run3After(text)
  /\ polls' = polls + 1
  /\ UNCHANGED << inputVars, apiVars, pageVars, viewVars, slugVars, sseVars, searchVars, pc, listAttempts, targets, query, idx,
                  sessionVars, deadline, target, ret, retKind, outputVars, submitVars >>

\* variant: the catch branch skips the sleep
PollEvalErrorNoSleep ==
  /\ pc = "poll"
  /\ now < deadline
  /\ \E lat \in EvalLatencies : now' = now + lat
  /\ polls' = polls + 1
  /\ lastPoll' = EvalError
  /\ prevPoll' = lastPoll
  /\ sameRun' = 0
  /\ UNCHANGED << inputVars, apiVars, pageVars, viewVars, slugVars, sseVars, searchVars, pc, listAttempts, targets, query, idx,
                  sessionVars, lastText, stableCount, deadline, lastSeen, run3, target,
                  ret, retKind, outputVars, submitVars >>

\* variant: a failed evaluation resets the stability counter
PollEvalErrorResets ==
  /\ pc = "poll"
  /\ now < deadline
  /\ \E lat \in EvalLatencies : now' = now + lat + POLL_INTERVAL
  /\ polls' = polls + 1
  /\ lastPoll' = EvalError
  /\ prevPoll' = lastPoll
  /\ sameRun' = 0
  /\ stableCount' = 0
  /\ UNCHANGED << inputVars, apiVars, pageVars, viewVars, slugVars, sseVars, searchVars, pc, listAttempts, targets, query, idx,
                  sessionVars, lastText, deadline, lastSeen, run3, target,
                  ret, retKind, outputVars, submitVars >>

\* Runtime.evaluate rejects: catch (evalErr) { log }, then sleep(POLL_INTERVAL)
PollEvalError ==
  /\ pc = "poll"
  /\ now < deadline
  /\ \E lat \in EvalLatencies : now' = now + lat + POLL_INTERVAL
  /\ polls' = polls + 1
  /\ lastPoll' = EvalError
  /\ prevPoll' = lastPoll
  /\ sameRun' = 0
  /\ UNCHANGED << inputVars, apiVars, pageVars, viewVars, slugVars, sseVars, searchVars, pc, listAttempts, targets, query, idx,
                  sessionVars, lastText, stableCount, deadline, lastSeen, run3, target,
                  ret, retKind, outputVars, submitVars >>

\* variant: the partial text is returned without the note
DeadlineResultBare == IF Len(lastText) > 0 THEN lastText ELSE Null

\* variant: the note is returned even when nothing was captured
DeadlineResultAlways == lastText \o TimeoutNote

\* variant: lastText is returned as it is, empty or not
DeadlineResultLastText == lastText

\* value returned once the loop ends at the deadline
DeadlineResult == IF Len(lastText) > 0 THEN lastText \o TimeoutNote ELSE Null

DeadlineKind == IF Len(lastText) > 0 THEN "partial" ELSE "no_answer"

\* the while condition fails; return the partial text or null; finally close
Deadline ==
  /\ pc = "poll"
  /\ ~(now < deadline)
  /\ ret' = DeadlineResult
  /\ retKind' = DeadlineKind
  /\ CloseSession
  /\ pc' = "record"
  /\ UNCHANGED << inputVars, apiVars, pageVars, viewVars, slugVars, sseVars, searchVars, listAttempts, targets, query, idx,
                  pollVars, outputVars, submitVars >>

(***************************************************************************)
(* PERSIST_RESULT                                                          *)
(***************************************************************************)
\* if (text): null and "" are falsy
Truthy(text) == text # Null /\ text # ""

\* status collectAll records for a matched engine
ResultStatus(text) == IF Truthy(text) THEN "ok" ELSE "failed"

\* variant: the length of the string a missing text prints as
ResultCharsOfNull(text) == IF text = "" THEN 0 ELSE Len(text)

ResultChars(text) == IF Truthy(text) THEN Len(text) ELSE 0

\* the failed entry is pushed with text: null, the ok entry without a text
ResultText(text) == IF Truthy(text) THEN Absent ELSE Null

\* file: `${engine.slug}.md` on the ok entry only
ResultFile(text, i) == IF Truthy(text) THEN ENGINES[i].slug \o ".md" ELSE Absent

\* md += text  /  md += "*No response collected*"
FileBody(text) == IF Truthy(text) THEN text ELSE NoResponseBody

EngineFile(i) == ENGINES[i].slug \o ".md"

ResponseFilesAfter(text) ==
  IF Truthy(text) THEN Append(responseFiles, ENGINES[idx].name) ELSE responseFiles

\* the locals of the finished extraction go out of scope with the loop iteration
ForgetExtraction ==
  /\ lastText' = ""
  /\ stableCount' = 0
  /\ now' = 0
  /\ deadline' = 0
  /\ polls' = 0
  /\ lastPoll' = Null
  /\ prevPoll' = Null
  /\ sameRun' = 0
  /\ lastSeen' = ""
  /\ run3' = ""
  /\ target' = 0
  /\ ret' = Null
  /\ retKind' = "none"

\* collectAll lines 589-609 / main lines 472-487: push, onProgress, writeFileSync
RecordResult ==
  /\ pc = "record"
  /\ responseFiles' = ResponseFilesAfter(ret)
  /\ responses' = IF entry = "collectAll"
                    THEN Append(responses, [engine |-> ENGINES[idx].name,
                                            status |-> ResultStatus(ret),
                                            chars |-> ResultChars(ret),
                                            text |-> ResultText(ret),
                                            file |-> ResultFile(ret, idx)])
                    ELSE responses
  /\ events' = IF entry = "collectAll"
                 THEN Emit(events, Event("engine_done", ENGINES[idx].name,
                                         ResultStatus(ret), ResultChars(ret)))
                 ELSE events
  /\ files' = WriteFile(files, EngineFile(idx), FileBody(ret))
  /\ pc' = NextEnginePc(idx)
  /\ idx' = idx + 1
  /\ ForgetExtraction
  /\ UNCHANGED << inputVars, apiVars, pageVars, viewVars, slugVars, sseVars, searchVars, listAttempts, targets, query,
                  sessionVars, dirCreated, folderName, synthCalls, synthesisFile,
                  viewerFile, submitVars >>

(***************************************************************************)
(* SYNTHESIZE, GENERATE_REPORT, COMPLETE                                   *)
(***************************************************************************)
\* variant: the option is not consulted
CollectAllSynthesizesAnyway == Len(responseFiles) >= MinSynthesisSources

\* collectAll: if (doSynthesize && responseFiles.length >= 2)
CollectAllSynthesizes == doSynthesize /\ Len(responseFiles) >= MinSynthesisSources

\* main: if (responseFiles.length === 0) process.exit(1); else synthesize(...)
MainSynthesizes == Len(responseFiles) # 0

BeginSynthesis ==
  /\ pc = "synth"
  /\ entry = "collectAll"
  /\ CollectAllSynthesizes
  /\ events' = Emit(events, Event("synthesizing", "", "", 0))
  /\ pc' = "synthesizing"
  /\ UNCHANGED << inputVars, apiVars, pageVars, viewVars, slugVars, sseVars, searchVars, listAttempts, targets, query, idx,
                  sessionVars, pollVars, ret, retKind, dirCreated, folderName, files,
                  responses, responseFiles, synthCalls, synthesisFile, viewerFile,
                  submitVars >>

SkipSynthesis ==
  /\ pc = "synth"
  /\ entry = "collectAll"
  /\ ~CollectAllSynthesizes
  /\ pc' = "viewer"
  /\ UNCHANGED << inputVars, apiVars, pageVars, viewVars, slugVars, sseVars, searchVars, listAttempts, targets, query, idx,
                  sessionVars, pollVars, ret, retKind, outputVars, submitVars >>

MainBeginSynthesis ==
  /\ pc = "synth"
  /\ entry = "main"
  /\ MainSynthesizes
  /\ pc' = "synthesizing"
  /\ UNCHANGED << inputVars, apiVars, pageVars, viewVars, slugVars, sseVars, searchVars, listAttempts, targets, query, idx,
                  sessionVars, pollVars, ret, retKind, outputVars, submitVars >>

\* "FAIL No responses collected from any engine."; process.exit(1)
MainNoResponses ==
  /\ pc = "synth"
  /\ entry = "main"
  /\ ~MainSynthesizes
  /\ pc' = "exit1"
  /\ UNCHANGED << inputVars, apiVars, pageVars, viewVars, slugVars, sseVars, searchVars, listAttempts, targets, query, idx,
                  sessionVars, pollVars, ret, retKind, outputVars, submitVars >>

\* execFileSync("claude", ...) returns; synthesis.md is written;
\* collectAll then finds it with existsSync
SynthesizeOk ==
  /\ pc = "synthesizing"
  /\ synthCalls' = synthCalls + 1
  /\ files' = WriteFile(files, "synthesis.md", "synthesis")
  /\ synthesisFile' = (entry = "collectAll")
  /\ pc' = "viewer"
  /\ UNCHANGED << inputVars, apiVars, pageVars, viewVars, slugVars, sseVars, searchVars, listAttempts, targets, query, idx,
                  sessionVars, pollVars, ret, retKind, dirCreated, folderName, responses,
                  responseFiles, events, viewerFile, submitVars >>

\* execFileSync throws (non-zero exit, timeout, maxBuffer): caught and logged
SynthesizeFails ==
  /\ pc = "synthesizing"
  /\ synthCalls' = synthCalls + 1
  /\ synthesisFile' = (entry = "collectAll" /\ FileExists(files, "synthesis.md"))
  /\ pc' = "viewer"
  /\ UNCHANGED << inputVars, apiVars, pageVars, viewVars, slugVars, sseVars, searchVars, listAttempts, targets, query, idx,
                  sessionVars, pollVars, ret, retKind, dirCreated, folderName, files,
                  responses, responseFiles, events, viewerFile, submitVars >>

GenerateViewer ==
  /\ pc = "viewer"
  /\ files' = WriteFile(files, "index.html", "viewer")
  /\ viewerFile' = (entry = "collectAll")
  /\ pc' = "complete"
  /\ UNCHANGED << inputVars, apiVars, pageVars, viewVars, slugVars, sseVars, searchVars, listAttempts, targets, query, idx,
                  sessionVars, pollVars, ret, retKind, dirCreated, folderName, responses,
                  responseFiles, events, synthCalls, synthesisFile, submitVars >>

\* generateViewer throws: caught and logged
GenerateViewerFails ==
  /\ pc = "viewer"
  /\ pc' = "complete"
  /\ UNCHANGED << inputVars, apiVars, pageVars, viewVars, slugVars, sseVars, searchVars, listAttempts, targets, query, idx,
                  sessionVars, pollVars, ret, retKind, outputVars, submitVars >>

\* onProgress("complete", ...); return result   (main: "Done.")
Complete ==
  /\ pc = "complete"
  /\ events' = IF entry = "collectAll" THEN Emit(events, Event("complete", "", "", 0))
                                       ELSE events
  /\ pc' = "done"
  /\ UNCHANGED << inputVars, apiVars, pageVars, viewVars, slugVars, sseVars, searchVars, listAttempts, targets, query, idx,
                  sessionVars, pollVars, ret, retKind, dirCreated, folderName, files,
                  responses, responseFiles, synthCalls, synthesisFile, viewerFile,
                  submitVars >>

(***************************************************************************)
(* onProgress throws: collectAll has no handler around its calls, so the   *)
(* statements after the call are skipped and collectAll rejects.           *)
(***************************************************************************)
CreateRunFolderThrows ==
  /\ pc = "prepare"
  /\ entry = "collectAll"
  /\ folderName' = FolderName(Timestamp(clockMs), slugify(query))
  /\ dirCreated' = TRUE
  /\ files' = WriteFile(files, "prompt.md", query)
  /\ events' = Emit(events, Event("started", "", "", 0))
  /\ pc' = "threw"
  /\ UNCHANGED << inputVars, apiVars, pageVars, viewVars, slugVars, sseVars, searchVars, listAttempts, targets, query, idx,
                  sessionVars, pollVars, ret, retKind, responses, responseFiles,
                  synthCalls, synthesisFile, viewerFile, submitVars >>

EngineNoTabThrows ==
  /\ pc = "engine"
  /\ entry = "collectAll"
  /\ EngineTab.id = 0
  /\ responses' = Append(responses, [engine |-> ENGINES[idx].name,
                                     status |-> "no_tab", chars |-> 0,
                                            text |-> Null, file |-> Absent])
  /\ events' = Emit(events, Event("engine_done", ENGINES[idx].name, "no_tab", 0))
  /\ pc' = "threw"
  /\ UNCHANGED << inputVars, apiVars, pageVars, viewVars, slugVars, sseVars, searchVars, listAttempts, targets, query, idx,
                  sessionVars, pollVars, ret, retKind, dirCreated, folderName, files,
                  responseFiles, synthCalls, synthesisFile, viewerFile, submitVars >>

\* the throw skips fs.writeFileSync(filePath, md)
RecordResultThrows ==
  /\ pc = "record"
  /\ entry = "collectAll"
  /\ responseFiles' = ResponseFilesAfter(ret)
  /\ responses' = Append(responses, [engine |-> ENGINES[idx].name,
                                     status |-> ResultStatus(ret),
                                     chars |-> ResultChars(ret),
                                     text |-> ResultText(ret),
                                     file |-> ResultFile(ret, idx)])
  /\ events' = Emit(events, Event("engine_done", ENGINES[idx].name,
                                  ResultStatus(ret), ResultChars(ret)))
  /\ pc' = "threw"
  /\ UNCHANGED << inputVars, apiVars, pageVars, viewVars, slugVars, sseVars, searchVars, listAttempts, targets, query, idx,
                  sessionVars, pollVars, ret, retKind, dirCreated, folderName, files,
                  synthCalls, synthesisFile, viewerFile, submitVars >>

BeginSynthesisThrows ==
  /\ pc = "synth"
  /\ entry = "collectAll"
  /\ CollectAllSynthesizes
  /\ events' = Emit(events, Event("synthesizing", "", "", 0))
  /\ pc' = "threw"
  /\ UNCHANGED << inputVars, apiVars, pageVars, viewVars, slugVars, sseVars, searchVars, listAttempts, targets, query, idx,
                  sessionVars, pollVars, ret, retKind, dirCreated, folderName, files,
                  responses, responseFiles, synthCalls, synthesisFile, viewerFile,
                  submitVars >>

CompleteThrows ==
  /\ pc = "complete"
  /\ entry = "collectAll"
  /\ events' = Emit(events, Event("complete", "", "", 0))
  /\ pc' = "threw"
  /\ UNCHANGED << inputVars, apiVars, pageVars, viewVars, slugVars, sseVars, searchVars, listAttempts, targets, query, idx,
                  sessionVars, pollVars, ret, retKind, dirCreated, folderName, files,
                  responses, responseFiles, synthCalls, synthesisFile, viewerFile,
                  submitVars >>

(***************************************************************************)
(* submitAll                                                               *)
(***************************************************************************)
SubmitTab == FindTab(targets, SUBMITTERS[idx].urlMatch)

NextSubmitPc(i) == IF i >= NumSubmitters THEN "done" ELSE "submit"

SubmitResult(status) == [engine |-> SUBMITTERS[idx].name, status |-> status]

SubmitNoTab ==
  /\ pc = "submit"
  /\ SubmitTab.id = 0
  /\ submitted' = Append(submitted, SubmitResult("no_tab"))
  /\ pc' = NextSubmitPc(idx)
  /\ idx' = idx + 1
  /\ UNCHANGED << inputVars, apiVars, pageVars, viewVars, slugVars, sseVars, searchVars, listAttempts, targets, query,
                  sessionVars, pollVars, ret, retKind, outputVars, activations >>

SubmitConnect ==
  /\ pc = "submit"
  /\ SubmitTab.id # 0
  /\ OpenSession
  /\ pc' = "submitEval"
  /\ UNCHANGED << inputVars, apiVars, pageVars, viewVars, slugVars, sseVars, searchVars, listAttempts, targets, query, idx,
                  pollVars, ret, retKind, outputVars, submitVars >>

SubmitConnectFails ==
  /\ pc = "submit"
  /\ SubmitTab.id # 0
  /\ submitted' = Append(submitted, SubmitResult("error"))
  /\ pc' = NextSubmitPc(idx)
  /\ idx' = idx + 1
  /\ UNCHANGED << inputVars, apiVars, pageVars, viewVars, slugVars, sseVars, searchVars, listAttempts, targets, query,
                  sessionVars, pollVars, ret, retKind, outputVars, activations >>

\* Runtime.evaluate(sub.script) resolves; finally close
SubmitEvaluate ==
  /\ pc = "submitEval"
  /\ activations' = [activations EXCEPT ![idx] = @ + 1]
  /\ submitted' = Append(submitted, SubmitResult("ok"))
  /\ CloseSession
  /\ pc' = NextSubmitPc(idx)
  /\ idx' = idx + 1
  /\ UNCHANGED << inputVars, apiVars, pageVars, viewVars, slugVars, sseVars, searchVars, listAttempts, targets, query, pollVars,
                  ret, retKind, outputVars >>

\* variant: an activation script whose evaluation failed is evaluated a second time
SubmitEvaluateFailsRetries ==
  /\ pc = "submitEval"
  /\ activations' = [activations EXCEPT ![idx] = @ + 1]
  /\ IF activations[idx] = 0
       THEN /\ pc' = "submitEval"
            /\ UNCHANGED << submitted, idx, sessionVars >>
       ELSE /\ submitted' = Append(submitted, SubmitResult("error"))
            /\ CloseSession
            /\ pc' = NextSubmitPc(idx)
            /\ idx' = idx + 1
  /\ UNCHANGED << inputVars, apiVars, pageVars, viewVars, slugVars, sseVars, searchVars, listAttempts, targets, query, pollVars,
                  ret, retKind, outputVars >>

\* Runtime.evaluate rejects; catch pushes "error"; finally close
SubmitEvaluateFails ==
  /\ pc = "submitEval"
  /\ activations' = [activations EXCEPT ![idx] = @ + 1]
  /\ submitted' = Append(submitted, SubmitResult("error"))
  /\ CloseSession
  /\ pc' = NextSubmitPc(idx)
  /\ idx' = idx + 1
  /\ UNCHANGED << inputVars, apiVars, pageVars, viewVars, slugVars, sseVars, searchVars, listAttempts, targets, query, pollVars,
                  ret, retKind, outputVars >>

(***************************************************************************)
(* Specifications                                                          *)
(***************************************************************************)
\* runs whose onProgress callback returns normally (the default no-op,
\* sseBroadcast writing to live clients)
Next ==
  \/ ListTabs \/ ListTabsFails
  \/ QueryFromUrl \/ QueryNoFallbackTab \/ QueryConnect \/ QueryConnectFails
  \/ QueryTitle \/ QueryTitleEvalFails
  \/ CreateRunFolder
  \/ EngineNoTab \/ Connect \/ ConnectFails
  \/ PollStable \/ PollContinue \/ PollEvalError \/ Deadline
  \/ RecordResult
  \/ BeginSynthesis \/ SkipSynthesis \/ MainBeginSynthesis \/ MainNoResponses
  \/ SynthesizeOk \/ SynthesizeFails
  \/ GenerateViewer \/ GenerateViewerFails
  \/ Complete
  \/ SubmitNoTab \/ SubmitConnect \/ SubmitConnectFails
  \/ SubmitEvaluate \/ SubmitEvaluateFails

Spec == Init /\ [][Next]_vars

\* collectAll runs, synthesis left enabled, in which every step that can be
\* taken is taken in the end: the event loop resumes every await that has
\* settled
InitCollectAll == Init /\ entry = "collectAll" /\ doSynthesize

NextCollectAll ==
  \/ ListTabs \/ ListTabsFails
  \/ QueryFromUrl \/ QueryNoFallbackTab \/ QueryConnect \/ QueryConnectFails
  \/ QueryTitle \/ QueryTitleEvalFails
  \/ CreateRunFolder
  \/ EngineNoTab \/ Connect \/ ConnectFails
  \/ PollStable \/ PollContinue \/ PollEvalError \/ Deadline
  \/ RecordResult
  \/ BeginSynthesis \/ SkipSynthesis
  \/ SynthesizeOk \/ SynthesizeFails
  \/ GenerateViewer \/ GenerateViewerFails
  \/ Complete

\* one collectAll call without synthesis, its timeout long enough for a value
\* to be judged stable although an evaluation failed on the way
ExtractTimeoutSec == MaxTimeoutSec + POLL_INTERVAL \div MsPerSecond

InitExtract == InitWith({ExtractTimeoutSec}) /\ entry = "collectAll" /\ ~doSynthesize

NextExtract ==
  \/ ListTabs \/ ListTabsFails
  \/ QueryFromUrl \/ QueryNoFallbackTab \/ QueryConnect \/ QueryConnectFails
  \/ QueryTitle \/ QueryTitleEvalFails
  \/ CreateRunFolder
  \/ EngineNoTab \/ Connect \/ ConnectFails
  \/ PollStable \/ PollContinue \/ PollEvalError \/ Deadline
  \/ RecordResult
  \/ SkipSynthesis
  \/ GenerateViewer \/ GenerateViewerFails
  \/ Complete

SpecExtract == InitExtract /\ [][NextExtract]_vars

(***************************************************************************)
(* GET /api/events: observers of a run. A collectAll call made by the API   *)
(* server gets sseBroadcast as onProgress.                                  *)
(***************************************************************************)
SseResponses == {"res1"}

\* sseClients.add(res)
SseConnect(res) ==
  /\ res \notin sseClients \cup sseClosed
  /\ sseClients' = sseClients \cup {res}
  /\ UNCHANGED << callVars, apiVars, pageVars, viewVars, slugVars, searchVars, sseClosed >>

\* req.on("close", () => sseClients.delete(res))
SseClose(res) ==
  /\ res \in sseClients
  /\ sseClients' = sseClients \ {res}
  /\ sseClosed' = sseClosed \cup {res}
  /\ UNCHANGED << callVars, apiVars, pageVars, viewVars, slugVars, searchVars >>

\* a run with the short timeout: no value is polled often enough to be judged
\* stable, every text is a deadline result
InitSse ==
  InitWith({MaxTimeoutSec \div 2}) /\ entry = "collectAll" /\ doSynthesize

NextSse ==
  \/ ListTabs \/ ListTabsFails
  \/ QueryFromUrl \/ QueryNoFallbackTab \/ QueryConnect \/ QueryConnectFails
  \/ QueryTitle \/ QueryTitleEvalFails
  \/ CreateRunFolder
  \/ EngineNoTab \/ Connect \/ ConnectFails
  \/ PollContinue \/ PollEvalError \/ Deadline
  \/ RecordResult
  \/ BeginSynthesis \/ SkipSynthesis
  \/ SynthesizeOk \/ SynthesizeFails
  \/ GenerateViewer \/ GenerateViewerFails
  \/ Complete
  \/ \E res \in SseResponses : SseConnect(res) \/ SseClose(res)

SpecSse == InitSse /\ [][NextSse]_vars

SpecFair == InitCollectAll /\ [][NextCollectAll]_vars /\ WF_vars(NextCollectAll)

\* runs whose onProgress callback may throw on any call
ProgressThrows ==
  \/ CreateRunFolderThrows \/ EngineNoTabThrows \/ RecordResultThrows
  \/ BeginSynthesisThrows \/ CompleteThrows

NextThrow == Next \/ ProgressThrows

SpecThrow == Init /\ [][NextThrow]_vars

(***************************************************************************)
(* POST /search (api.js): submitAll, then a pause, then collectAll, all in  *)
(* one request handler.                                                    *)
(***************************************************************************)
\* the per-engine timeout of the request: one poll interval
SearchTimeoutSec == POLL_INTERVAL \div MsPerSecond

\* the handler has read the request body and calls submitAll
InitSearch ==
  /\ InitRun({SearchTimeoutSec})
  /\ entry = "submitAll"
  /\ search = [step |-> "submit", status |-> 0]

\* variant: collectAll is called as soon as submitAll has resolved
SearchSubmittedNoWait ==
  /\ search.step = "submit"
  /\ pc = "done"
  /\ search' = [search EXCEPT !.step = "collect"]
  /\ entry' = "collectAll"
  /\ doSynthesize' \in { DoSynthesizeOf(opt) : opt \in SynthesizeOptions }
  /\ timeoutSec' = SearchTimeoutSec
  /\ pc' = "start"
  /\ listAttempts' = 0
  /\ targets' = <<>>
  /\ idx' = 1
  /\ UNCHANGED << apiVars, pageVars, viewVars, slugVars, sseVars, query, sessionVars, pollVars,
                  ret, retKind, outputVars, submitVars >>

\* submitResults = await submitAll() resolves; setTimeout(resolve, waitSec * 1000)
SearchSubmitted ==
  /\ search.step = "submit"
  /\ pc = "done"
  /\ search' = [search EXCEPT !.step = "wait"]
  /\ UNCHANGED << callVars, apiVars, pageVars, viewVars, slugVars, sseVars >>

\* the timer fires; collectAll({ timeout, doSynthesize, onProgress: sseBroadcast })
SearchWaited ==
  /\ search.step = "wait"
  /\ search' = [search EXCEPT !.step = "collect"]
  /\ entry' = "collectAll"
  /\ doSynthesize' \in { DoSynthesizeOf(opt) : opt \in SynthesizeOptions }
  /\ timeoutSec' = SearchTimeoutSec
  /\ pc' = "start"
  /\ listAttempts' = 0
  /\ targets' = <<>>
  /\ idx' = 1
  /\ UNCHANGED << apiVars, pageVars, viewVars, slugVars, sseVars, query, sessionVars, pollVars,
                  ret, retKind, outputVars, submitVars >>

\* collectAll resolves; res.json({ promptDir, query, submitted, responses, ... })
SearchResponds ==
  /\ search.step = "collect"
  /\ pc = "done"
  /\ search' = [step |-> "responded", status |-> 200]
  /\ UNCHANGED << callVars, apiVars, pageVars, viewVars, slugVars, sseVars >>

\* submitAll or collectAll rejects with ECONNREFUSED; res.status(503)
SearchRejects ==
  /\ search.step \in {"submit", "collect"}
  /\ pc = "aborted"
  /\ search' = [step |-> "responded", status |-> 503]
  /\ UNCHANGED << callVars, apiVars, pageVars, viewVars, slugVars, sseVars >>

NextSearch ==
  \/ ListTabs \/ ListTabsFails
  \/ SubmitNoTab \/ SubmitConnect \/ SubmitConnectFails
  \/ SubmitEvaluate \/ SubmitEvaluateFails
  \/ SearchSubmitted \/ SearchWaited
  \/ QueryFromUrl \/ QueryNoFallbackTab \/ QueryConnect \/ QueryConnectFails
  \/ QueryTitle \/ QueryTitleEvalFails
  \/ CreateRunFolder
  \/ EngineNoTab \/ Connect \/ ConnectFails
  \/ PollContinue \/ PollEvalError \/ Deadline
  \/ RecordResult
  \/ BeginSynthesis \/ SkipSynthesis
  \/ SynthesizeOk \/ SynthesizeFails
  \/ GenerateViewer \/ GenerateViewerFails
  \/ Complete
  \/ SearchResponds \/ SearchRejects

SpecSearch == InitSearch /\ [][NextSearch]_vars

(***************************************************************************)
(* API server (api.js): POST /collect requests served concurrently.  Each  *)
(* request runs collectAll; the calls interleave at collectAll's awaits.   *)
(* The engine loop, modelled step by step above, appears here by its       *)
(* outcome only: the number of engines whose text was collected.           *)
(***************************************************************************)
\* fs.writeFileSync under OUTPUT_DIR: a file is replaced by a later write of its path
DiskWrite(d, dir, names, by) ==
  { f \in d : ~(f.dir = dir /\ f.name \in names) }
    \cup { [dir |-> dir, name |-> n, by |-> by] : n \in names }

\* fs.existsSync(path.join(promptDir, name))
DiskExists(d, dir, name) == \E f \in d : f.dir = dir /\ f.name = name

\* files of the engines whose text was collected, when there are n of them
CollectedFiles(n) == { EngineFile(i) : i \in 1..n }

\* the request arrives; CDP.List resolves and extractQuery returns
\* onProgress: sseBroadcast, called by run r once for each of the events
Broadcast(types, r) == [type |-> types[Len(types)], run |-> r]

ApiCollect(r) ==
  /\ runs[r].pc = "idle"
  /\ \E q \in ApiQueries : runs' = [runs EXCEPT ![r].pc = "prepare", ![r].query = q]
  /\ UNCHANGED << runVars, pageVars, viewVars, slugVars, outputDir, clockMs, disk, lastBroadcast >>

\* CDP.List rejects: collectAll rejects and the handler answers 503
ApiListFails(r) ==
  /\ runs[r].pc = "idle"
  /\ runs' = [runs EXCEPT ![r].pc = "rejected"]
  /\ UNCHANGED << runVars, pageVars, viewVars, slugVars, outputDir, clockMs, disk, lastBroadcast >>

\* slug, ts, folderName, mkdirSync(recursive), writeFileSync(prompt.md), "started"
ApiCreateFolder(r) ==
  /\ runs[r].pc = "prepare"
  /\ LET name == FolderName(Timestamp(clockMs), slugify(runs[r].query))
     IN /\ runs' = [runs EXCEPT ![r].pc = "engines", ![r].folderName = name]
        /\ disk' = DiskWrite(disk, name, {"prompt.md"}, r)
  /\ lastBroadcast' = Broadcast(<<"started">>, r)
  /\ UNCHANGED << runVars, pageVars, viewVars, slugVars, outputDir, clockMs >>

\* the loop over ENGINES ends with n collected texts, their files written;
\* an extraction that returns a text has slept at least one POLL_INTERVAL
ApiEngineLoop(r) ==
  /\ runs[r].pc = "engines"
  /\ \E n \in 0..MinSynthesisSources :
       /\ n > 0 => Timestamp(clockMs) >= runs[r].folderName[1] + Timestamp(POLL_INTERVAL)
       /\ runs' = [runs EXCEPT ![r].pc = "synth", ![r].okCount = n]
       /\ disk' = DiskWrite(disk, runs[r].folderName, CollectedFiles(n), r)
  /\ lastBroadcast' = Broadcast([i \in 1..NumEngines |-> "engine_done"], r)
  /\ UNCHANGED << runVars, pageVars, viewVars, slugVars, outputDir, clockMs >>

\* synthesize writes synthesis.md; existsSync(synthesisPath) sets result.synthesisFile
ApiSynthesizeOk(r) ==
  /\ runs[r].pc = "synth"
  /\ runs[r].okCount >= MinSynthesisSources
  /\ disk' = DiskWrite(disk, runs[r].folderName, {"synthesis.md"}, r)
  /\ runs' = [runs EXCEPT ![r].pc = "viewer", ![r].synthesis = "ok",
                          ![r].synthesisFile =
                            DiskExists(disk', runs[r].folderName, "synthesis.md")]
  /\ lastBroadcast' = Broadcast(<<"synthesizing">>, r)
  /\ UNCHANGED << runVars, pageVars, viewVars, slugVars, outputDir, clockMs >>

\* synthesize catches the failure of the process and writes nothing
ApiSynthesizeFails(r) ==
  /\ runs[r].pc = "synth"
  /\ runs[r].okCount >= MinSynthesisSources
  /\ runs' = [runs EXCEPT ![r].pc = "viewer", ![r].synthesis = "failed",
                          ![r].synthesisFile =
                            DiskExists(disk, runs[r].folderName, "synthesis.md")]
  /\ lastBroadcast' = Broadcast(<<"synthesizing">>, r)
  /\ UNCHANGED << runVars, pageVars, viewVars, slugVars, outputDir, clockMs, disk >>

\* fewer than two collected texts: the synthesis block is not entered
ApiSkipSynthesis(r) ==
  /\ runs[r].pc = "synth"
  /\ runs[r].okCount < MinSynthesisSources
  /\ runs' = [runs EXCEPT ![r].pc = "viewer"]
  /\ UNCHANGED << runVars, pageVars, viewVars, slugVars, outputDir, clockMs, disk, lastBroadcast >>

\* generateViewer gets synthesis.md if existsSync finds it, and writes index.html
\* (or throws and is logged); "complete"; res.json
ApiRespond(r) ==
  /\ runs[r].pc = "viewer"
  /\ runs' = [runs EXCEPT ![r].pc = "done",
                          ![r].viewerSynthesis =
                            DiskExists(disk, runs[r].folderName, "synthesis.md")]
  /\ \/ disk' = DiskWrite(disk, runs[r].folderName, {"index.html"}, r)
     \/ disk' = disk
  /\ lastBroadcast' = Broadcast(<<"complete">>, r)
  /\ UNCHANGED << runVars, pageVars, viewVars, slugVars, outputDir, clockMs >>

\* time passes
Tick ==
  /\ \E c \in ClockReadings : c > clockMs /\ clockMs' = c
  /\ UNCHANGED << runVars, pageVars, viewVars, slugVars, outputDir, runs, disk, lastBroadcast >>

InitApi ==
  /\ Init
  /\ entry = "collectAll"
  /\ doSynthesize
  /\ timeoutSec = MaxTimeoutSec

NextApi ==
  \/ \E r \in Requests :
       \/ ApiCollect(r)
       \/ ApiListFails(r)
       \/ ApiCreateFolder(r)
       \/ ApiEngineLoop(r)
       \/ ApiSynthesizeOk(r)
       \/ ApiSynthesizeFails(r)
       \/ ApiSkipSynthesis(r)
       \/ ApiRespond(r)
  \/ Tick

SpecApi == InitApi /\ [][NextApi]_vars

(***************************************************************************)
(* Extraction scripts in the page (ENGINES[i].extractScript): what one     *)
(* evaluation does to the page it runs in                                  *)
(***************************************************************************)
\* for (const b of document.querySelectorAll('button'))
\*   if (b.innerText.trim() === 'Show more') b.click();     (Claude only)
ClicksShowMore(i) == ENGINES[i].name = "Claude"

\* the page after one evaluation of engine i's extractScript
PageAfterExtract(i, p) ==
  IF ClicksShowMore(i) THEN [p EXCEPT !.clicks = @ + p.showMore] ELSE p

\* the tab shows the site of engine i
PageLoads(i) ==
  /\ evaluated = 0
  /\ page' = [BlankPage EXCEPT !.site = i]
  /\ UNCHANGED << runVars, apiVars, slugVars, viewVars, evaluated >>

\* the site renders: the response text changes, long responses get collapsed
PageRenders ==
  /\ \E n \in 0..MaxButtons, t \in PageTexts \cup {""} :
       page' = [page EXCEPT !.showMore = n, !.text = t]
  /\ UNCHANGED << runVars, apiVars, slugVars, viewVars, evaluated >>

\* Runtime.evaluate({ expression: engine.extractScript }) in the engine's tab
EvaluateExtractScript ==
  /\ evaluated < MaxEvaluations
  /\ page' = PageAfterExtract(page.site, page)
  /\ evaluated' = evaluated + 1
  /\ UNCHANGED << runVars, apiVars, slugVars, viewVars >>

InitPage == InitApi

NextPage ==
  \/ \E i \in 1..NumEngines : PageLoads(i)
  \/ PageRenders
  \/ EvaluateExtractScript

SpecPage == InitPage /\ [][NextPage]_vars

(***************************************************************************)
(* slugify on typed queries: the query grows piece by piece, slugify is    *)
(* applied to it, and once more to its own result                          *)
(***************************************************************************)
\* a run of letters and digits long enough for two of them, each followed by
\* one other character, to fill the slug length exactly
LongRun == [i \in 1..((SlugMaxLen - 2) \div 2) |-> IF i = 1 THEN "7" ELSE "a"]

QueryPieces == { LongRun, <<"?">>, <<" ">>, <<"x">>, <<"Q">>, <<"-">> }

TypePiece(p) ==
  /\ slugRun.applied = 0
  /\ slugRun.pieces < MaxPieces
  /\ slugRun' = [slugRun EXCEPT !.text = @ \o p, !.pieces = @ + 1]
  /\ UNCHANGED << runVars, apiVars, pageVars, viewVars >>

\* const slug = slugify(query)
Slugify ==
  /\ slugRun.applied = 0
  /\ slugRun' = [slugRun EXCEPT !.slug = slugify(slugRun.text), !.applied = 1]
  /\ UNCHANGED << runVars, apiVars, pageVars, viewVars >>

\* slugify(slug)
SlugifyAgain ==
  /\ slugRun.applied = 1
  /\ slugRun' = [slugRun EXCEPT !.slug = slugify(slugRun.slug), !.applied = 2]
  /\ UNCHANGED << runVars, apiVars, pageVars, viewVars >>

InitSlug == InitApi

NextSlug ==
  \/ \E p \in QueryPieces : TypePiece(p)
  \/ Slugify
  \/ SlugifyAgain

SpecSlug == InitSlug /\ [][NextSlug]_vars

(***************************************************************************)
(* Run folders under OUTPUT_DIR and GET /responses (api.js): folder names   *)
(* as collectAll writes them, listed newest first.                         *)
(***************************************************************************)
DigitChars == <<"0","1","2","3","4","5","6","7","8","9">>

\* variant: a field is written without a leading zero
NoPad(n) ==
  IF n < 10 THEN << DigitChars[n + 1] >>
  ELSE << DigitChars[((n \div 10) % 10) + 1], DigitChars[(n % 10) + 1] >>

\* a two-digit field of toISOString()
Pad2(n) == << DigitChars[((n \div 10) % 10) + 1], DigitChars[(n % 10) + 1] >>

\* new Date().toISOString().replace(/[:.]/g, "-").slice(0, 19)
\* (the instants of the model fall on the first day of the epoch)
IsoStamp(ms) ==
  LET s == ms \div MsPerSecond
  IN <<"1","9","7","0","-","0","1","-","0","1","T">> \o Pad2(s \div 3600) \o <<"-">> \o Pad2((s \div 60) % 60)
              \o <<"-">> \o Pad2(s % 60)

\* the same characters in collation order (punctuation, digits, letters;
\* a capital right after its small letter)
CollationOrder ==
  <<"_", "-">> \o DigitChars \o SubSeq(LowerCase, 1, 20) \o <<"T">>
               \o SubSeq(LowerCase, 21, Len(LowerCase))

\* comparison of two names character by character: -1, 0 or 1
Compare(order, a, b) ==
  LET both == { i \in 1..Len(a) : i <= Len(b) }
      Rank(c) == CHOOSE i \in 1..Len(order) : order[i] = c
  IN IF \E i \in both : a[i] # b[i]
       THEN LET d == CHOOSE i \in both :
                       a[i] # b[i] /\ \A j \in 1..(i - 1) : a[j] = b[j]
            IN IF Rank(a[d]) < Rank(b[d]) THEN -1 ELSE 1
       ELSE IF Len(a) < Len(b) THEN -1 ELSE IF Len(a) > Len(b) THEN 1 ELSE 0

\* a.localeCompare(b)
localeCompare(a, b) == Compare(CollationOrder, a, b)

\* folders.sort((a, b) => b.name.localeCompare(a.name))
SortNewestFirst(names) ==
  CHOOSE seq \in [1..Cardinality(names) -> names] :
    \A i, j \in 1..Cardinality(names) :
      i < j => localeCompare(seq[j], seq[i]) < 0

\* a run creates its folder `${ts}_${slug}`: fs.mkdirSync(promptDir, { recursive: true })
CreateFolder(ms, q) ==
  /\ Cardinality(outputDir.folders) < MaxFolders
  /\ outputDir' = [outputDir EXCEPT !.folders =
                     @ \cup { [name |-> IsoStamp(ms) \o <<"_">> \o slugify(q),
                               second |-> Timestamp(ms)] }]
  /\ UNCHANGED << runVars, pageVars, viewVars, slugVars, clockMs, runs, disk, lastBroadcast >>

\* GET /responses
GetResponses ==
  /\ outputDir' = [outputDir EXCEPT !.listed =
                     SortNewestFirst({ f.name : f \in outputDir.folders })]
  /\ UNCHANGED << runVars, pageVars, viewVars, slugVars, clockMs, runs, disk, lastBroadcast >>

\* runs read the clock around the carries of the seconds, minutes and hours
\* fields, with queries of all kinds
NextFolders ==
  \/ \E ms \in {0, 9000, 9999, 10000, 59000, 60000, 3600000},
        q \in { <<"z","z">>, <<"0">>, Placeholder } : CreateFolder(ms, q)
  \/ GetResponses

SpecFolders == InitApi /\ [][NextFolders]_vars

(***************************************************************************)
(* Result files and the viewer (viewer.js): a file is its metadata header, *)
(* the separator line and the text; generateViewer reads it back and       *)
(* renders a body.  Markdown is a sequence of pieces, a piece being a      *)
(* stretch of text free of "---" or one "---".                             *)
(***************************************************************************)
Separator == "---"

\* the texts an engine may have given: at least one piece
ResponseTexts ==
  UNION { [1..n -> {"first", "more", Separator}] : n \in 1..MaxTextPieces }

\* # <engine> Response, **Source:**, **URL:**, **Date:**, **Query:**
\* # Cross-LLM Synthesis, **Query:**, **Date:**, **Sources:**
HeaderOf(kind) ==
  IF kind = "engine"
    THEN <<"# Response", "**Source:**", "**URL:**", "**Date:**", "**Query:**">>
    ELSE <<"# Cross-LLM Synthesis", "**Query:**", "**Date:**", "**Sources:**">>

\* parts = rawMd.split("---"); parts.length >= 3 ? parts.slice(2).join("---") : rawMd
\* (n cuts make n + 1 parts; the parts from the third on, joined again, are
\* what follows the second cut)
ViewerBody(md) ==
  LET cuts == { i \in 1..Len(md) : md[i] = Separator }
  IN IF Cardinality(cuts) + 1 >= MinHeaderParts
       THEN SubSeq(md, (CHOOSE i \in cuts :
                          Cardinality({ j \in cuts : j < i }) = 1) + 1, Len(md))
       ELSE md

\* md = header + "---\n\n" + text; fs.writeFileSync(filePath, md) of an ok
\* result, or of the synthesis
WriteResult(kind, text) ==
  /\ viewed.kind = "none"
  /\ viewed' = [kind |-> kind, text |-> text, file |-> HeaderOf(kind) \o << Separator >> \o text,
                body |-> <<>>, rendered |-> FALSE]
  /\ UNCHANGED << runVars, apiVars, pageVars, slugVars >>

\* generateViewer reads the file and renders marked(body.trim())
RenderBody ==
  /\ viewed.kind # "none"
  /\ ~viewed.rendered
  /\ viewed' = [viewed EXCEPT !.body = ViewerBody(viewed.file), !.rendered = TRUE]
  /\ UNCHANGED << runVars, apiVars, pageVars, slugVars >>

NextViewer ==
  \/ \E kind \in {"engine", "synthesis"}, text \in ResponseTexts : WriteResult(kind, text)
  \/ RenderBody

SpecViewer == InitApi /\ [][NextViewer]_vars

(***************************************************************************)
(* Properties                                                              *)
(***************************************************************************)
ExtractionReturned == pc = "record"

LastResponse(rs) == rs[Len(rs)]

LastWrite(fs) == fs[Len(fs)]

\* C1 (as stated): whenever the extraction script gave the same non-empty
\* value on three consecutive polls before the deadline, extractFromTab
\* returns exactly that value as the stable result.
C1_ThreeIdenticalPollsSuffice ==
  (ExtractionReturned /\ run3 # "") => (retKind = "stable" /\ ret = run3)

\* C1 (amended): whenever the extraction script gave the same non-empty value
\* on four consecutive polls before the deadline (one that captures it, three
\* that match it), extractFromTab returns at the fourth of them, and returns
\* exactly that value, without the incompleteness note.
C1_FourIdenticalPollsReturn ==
  sameRun >= 4 =>
    /\ ExtractionReturned
    /\ retKind = "stable"
    /\ ret = lastPoll
    /\ ret = run3
    /\ sameRun = 4

C1_Witness ==
  ExtractionReturned /\ sameRun = 4 /\ retKind = "stable" /\ ret = "a" /\ polls = 4

C3_NoAnswerIsFailed ==
  [][(ExtractionReturned /\ lastSeen = "")
       => /\ ret = Null
          /\ retKind \in {"no_answer", "connect_error"}
          /\ LastWrite(files').name = EngineFile(idx)
          /\ LastWrite(files').body = NoResponseBody
          /\ responseFiles' = responseFiles
          /\ entry = "collectAll" =>
               /\ LastResponse(responses').engine = ENGINES[idx].name
               /\ LastResponse(responses').status = "failed"
               /\ LastResponse(responses').chars = 0]_vars

C3_Witness ==
  /\ entry = "collectAll"
  /\ ExtractionReturned
  /\ retKind = "no_answer"
  /\ polls >= 2
  /\ lastSeen = ""
  /\ lastPoll = ""

CollectionRun == entry \in {"collectAll", "main"}

\* engines that ended successfully (status ok in collectAll, a saved response in main)
OkCount == Len(responseFiles)

\* C4: in every collection run, by collectAll or by main, the synthesis
\* process is invoked if and only if at least 2 engines ended ok.
C4_SynthesisIffTwoOk ==
  CollectionRun =>
    /\ synthCalls >= 1 => OkCount >= MinSynthesisSources
    /\ (pc = "done" /\ OkCount >= MinSynthesisSources) => synthCalls >= 1

\* C5: when listing the tabs fails, the run ends at once: one listing
\* attempt, no directory, no file, no session, no progress event, no
\* synthesis, and no further step.
C5_ListFailureAbortsCleanly ==
  (listAttempts >= 1 /\ targets = <<>> /\ pc \in {"start", "aborted"}) =>
    /\ pc = "aborted"
    /\ listAttempts = 1
    /\ ~dirCreated
    /\ files = <<>>
    /\ opened = 0
    /\ open = {}
    /\ events = <<>>
    /\ responses = <<>>
    /\ synthCalls = 0
    /\ ~ENABLED Next

C5_Witness == pc = "aborted" /\ listAttempts = 1 /\ entry = "collectAll"

EnginePhase == pc \in {"engine", "poll", "record"}

\* C6: in collectAll no step of the engine loop ends the run; an engine whose
\* extraction returned null (connection failed, every poll failed or was
\* empty until the deadline) is recorded as "failed" and the loop moves on to
\* the next engine; a finished run holds one result per registry engine.
C6_EngineFailureIsolated ==
  /\ [][(entry = "collectAll" /\ EnginePhase) =>
          /\ pc' \in {"engine", "poll", "record", "synth"}
          /\ (pc = "engine" /\ EngineTab.id # 0) => pc' \in {"poll", "record"}
          /\ (pc = "record" /\ ~Truthy(ret)) =>
               /\ LastResponse(responses').engine = ENGINES[idx].name
               /\ LastResponse(responses').status = "failed"
               /\ idx' = idx + 1
               /\ pc' = NextEnginePc(idx)]_vars
  /\ [](entry = "collectAll" =>
          /\ EnginePhase => Len(responses) = idx - 1
          /\ pc \in {"synth", "synthesizing", "viewer", "complete", "done"} =>
               /\ Len(responses) = NumEngines
               /\ \A i \in 1..NumEngines : responses[i].engine = ENGINES[i].name)

C6_Witness ==
  /\ entry = "collectAll"
  /\ pc = "done"
  /\ \E i, j \in 1..NumEngines :
       i < j /\ responses[i].status = "failed" /\ responses[j].status = "ok"

SessionInUse == pc \in {"poll", "queryTitle", "submitEval"}

\* C7: a session is open only inside the call that opened it: once
\* extractFromTab, extractQuery or one submitter of submitAll has finished,
\* whatever way it ended, no session is open.
C7_SessionsClosedOnExit ==
  IF SessionInUse THEN client # 0 /\ open = {client}
                  ELSE client = 0 /\ open = {}

C7_Witness == pc = "done" /\ opened >= 2 /\ open = {} /\ entry = "submitAll"

\* C8: at most one session is open at any moment of a run, and the open
\* session is the one opened last: an earlier session is never used again.
C8_OneSessionAtATime ==
  /\ Cardinality(open) <= 1
  /\ \A sid \in open : sid = opened /\ sid = client

C8_Witness ==
  /\ entry = "collectAll"
  /\ pc = "poll"
  /\ idx >= 2
  /\ opened >= 3
  /\ open = {opened}

EventTypes(evs) == [i \in 1..Len(evs) |-> evs[i].type]

SynthesisAttempted == pc = "synthesizing" \/ synthCalls >= 1

ExpectedEventTypes(withSynthesis) ==
  <<"started">> \o [i \in 1..NumEngines |-> "engine_done"]
    \o (IF withSynthesis THEN <<"synthesizing">> ELSE <<>>) \o <<"complete">>

IsPrefix(a, b) == Len(a) <= Len(b) /\ a = SubSeq(b, 1, Len(a))

\* C9: a collectAll run emits nothing before discovery has succeeded, then
\* "started", then one "engine_done" per registry engine in registry order,
\* then "synthesizing" exactly when synthesis is attempted, then "complete"
\* as its last event.
C9_EventOrder ==
  entry = "collectAll" =>
    /\ pc \in {"start", "aborted", "extractQuery", "queryTitle", "prepare"} => events = <<>>
    /\ IsPrefix(EventTypes(events), ExpectedEventTypes(SynthesisAttempted))
    /\ \A i \in 2..Len(events) :
         events[i].type = "engine_done" => events[i].engine = ENGINES[i - 1].name
    /\ EnginePhase => Len(events) = idx
    /\ pc = "synth" => Len(events) = NumEngines + 1
    /\ pc \in {"synthesizing", "viewer", "complete"} =>
         Len(events) = NumEngines + 1 + (IF SynthesisAttempted THEN 1 ELSE 0)
    /\ pc = "done" => EventTypes(events) = ExpectedEventTypes(SynthesisAttempted)

C9_Witness ==
  /\ entry = "collectAll"
  /\ pc = "done"
  /\ EventTypes(events) = ExpectedEventTypes(TRUE)

\* positions from which the run takes no further step
RunEnded == {"done", "aborted", "threw", "exit1"}

\* C10: a throwing onProgress callback does not abort the run: a collectAll
\* run that got past discovery stops only after every engine has a result
\* and collectAll has returned.
C10_EmissionFailureTolerated ==
  (entry = "collectAll" /\ pc \in RunEnded /\ pc # "aborted") =>
    /\ pc = "done"
    /\ Len(responses) = NumEngines

\* C11 (as stated): when a collectAll run has ended, its directory holds the
\* query file and, for every engine of the registry, that engine's file:
\* also for the engines that failed and for those no tab matched, whose
\* files carry the placeholder body.
C11_OneFilePerEngine ==
  (entry = "collectAll" /\ pc = "done") =>
    /\ FileExists(files, "prompt.md")
    /\ \A i \in 1..NumEngines :
         /\ FileExists(files, EngineFile(i))
         /\ \A k \in 1..Len(files) :
              (files[k].name = EngineFile(i) /\ responses[i].status # "ok") =>
                files[k].body = NoResponseBody

\* engine i of the registry has a tab in the list discovery returned
Matched(i) == FindTab(targets, ENGINES[i].urlMatch).id # 0

AfterEngines == {"synth", "synthesizing", "viewer", "complete", "done", "exit1"}

\* C12: the file of a matched engine is written as soon as its extraction
\* has returned: it is in the directory before the next engine is looked at
\* and before synthesis is invoked, and it is still there after synthesis,
\* whether the synthesis process succeeded or failed.
C12_EngineFileBeforeNextStep ==
  CollectionRun =>
    /\ EnginePhase =>
         \A i \in 1..(idx - 1) : Matched(i) => FileExists(files, EngineFile(i))
    /\ pc \in AfterEngines =>
         \A i \in 1..NumEngines : Matched(i) => FileExists(files, EngineFile(i))

C12_Witness ==
  /\ entry = "collectAll"
  /\ pc = "viewer"
  /\ synthCalls = 1
  /\ ~FileExists(files, "synthesis.md")
  /\ \E i, j \in 1..NumEngines :
       i # j /\ FileExists(files, EngineFile(i)) /\ FileExists(files, EngineFile(j))

\* requests whose collectAll call has created its run directory
Started == { r \in Requests : runs[r].folderName # NoFolder }

\* C13 (as stated): two distinct collection runs never get the same folder
\* name, also when they overlap in time or start within the same second
\* for the same query; so every file in a run's directory was written by
\* that run.
C13_FolderNameUnique ==
  /\ \A r1, r2 \in Started : r1 # r2 => runs[r1].folderName # runs[r2].folderName
  /\ \A f \in disk : \A r \in Started : f.dir = runs[r].folderName => f.by = r

\* C14 (as stated): a run whose synthesis process failed goes on to its end,
\* has written no synthesis file and reports no synthesis in its result.
C14_SynthesisFailureReported ==
  \A r \in Requests :
    (runs[r].synthesis = "failed" /\ runs[r].pc = "done") =>
      /\ ~runs[r].synthesisFile
      /\ \A f \in disk : f.name = "synthesis.md" => f.by # r

\* C15 (as stated): evaluating an engine's extraction script leaves the page
\* as it was, for every engine of the registry: it dispatches no click and
\* types nothing, however often it is evaluated.
C15_ExtractScriptsReadOnly == [][evaluated' # evaluated => page' = page]_vars

\* evaluations of activation scripts made so far in this run
ActivationsMade == activations[1] + activations[2] + activations[3]

\* C16: in one run every submitter's activation script is evaluated at most
\* once; it is evaluated exactly once for each session submitAll opened
\* (so once per submitter whose tab exists and whose session opens, also
\* when the evaluation fails), never for a submitter without a tab, and
\* never by a collection run, whose polling loop evaluates extraction
\* scripts only.
C16_ActivationAtMostOnce ==
  /\ \A i \in 1..NumSubmitters : activations[i] <= 1
  /\ CollectionRun => ActivationsMade = 0
  /\ entry = "submitAll" =>
       /\ ActivationsMade = opened - (IF pc = "submitEval" THEN 1 ELSE 0)
       /\ \A i \in 1..NumSubmitters :
            /\ i > Len(submitted) => activations[i] = 0
            /\ i <= Len(submitted) =>
                 /\ submitted[i].status = "ok" => activations[i] = 1
                 /\ submitted[i].status = "no_tab" => activations[i] = 0
                 /\ FindTab(targets, SUBMITTERS[i].urlMatch).id = 0 => activations[i] = 0

C16_Witness ==
  /\ entry = "submitAll"
  /\ pc = "done"
  /\ \E i, j \in 1..NumSubmitters :
       /\ submitted[i].status = "error" /\ activations[i] = 1
       /\ submitted[j].status = "ok" /\ activations[j] = 1

\* extractQuery has just returned
QueryKnown == pc = "prepare"

\* tab k of the discovered list is a page with a URL parameter q or prompt
CarriesParam(k) ==
  targets[k].type = "page" /\ (targets[k].q # <<>> \/ targets[k].prompt # <<>>)

\* C17 (as stated): whenever some discovered page tab carries a q or prompt
\* URL parameter, the query is the parameter of such a tab.
C17_AnyUrlParamWins ==
  (CollectionRun /\ QueryKnown /\ \E k \in 1..Len(targets) : CarriesParam(k)) =>
    \E k \in 1..Len(targets) :
      CarriesParam(k) /\ query \in {targets[k].q, targets[k].prompt}

\* the q parameter of tab k or, when it has none, its prompt parameter
ParamOf(k) == IF targets[k].q # <<>> THEN targets[k].q ELSE targets[k].prompt

\* tab k is a page whose parameter is longer than 10 characters
CarriesLongParam(k) == targets[k].type = "page" /\ Len(ParamOf(k)) > MinQueryParamLen

HasFallbackTab ==
  \E k \in 1..Len(targets) :
    /\ targets[k].type = "page"
    /\ targets[k].host = "perplexity.ai"
    /\ targets[k].path = "/search"

\* C17 (amended): the query is the parameter of the first page tab whose
\* parameter is longer than 10 characters; if there is none, it is the
\* placeholder or, when a fallback tab exists, what the title branch makes
\* of a title; collectAll and main never end inside extractQuery.
C17_QueryPriority ==
  CollectionRun =>
    /\ pc # "threw"
    /\ pc = "aborted" => (opened = 0 /\ targets = <<>>)
    /\ QueryKnown =>
         IF \E k \in 1..Len(targets) : CarriesLongParam(k)
           THEN \E k \in 1..Len(targets) :
                  /\ CarriesLongParam(k)
                  /\ \A j \in 1..(k - 1) : ~CarriesLongParam(j)
                  /\ query = ParamOf(k)
           ELSE IF HasFallbackTab
                  THEN query \in {Placeholder} \cup { QueryFromTitle(t) : t \in PageTitles }
                  ELSE query = Placeholder

\* a tab carries a short parameter only, the session of the fallback tab
\* could not be opened, and extractQuery has returned the placeholder
C17_Witness ==
  /\ CollectionRun
  /\ pc = "prepare"
  /\ \E k \in 1..Len(targets) : CarriesParam(k)
  /\ ~\E k \in 1..Len(targets) : CarriesLongParam(k)
  /\ HasFallbackTab
  /\ opened = 0
  /\ query = Placeholder

CeilDiv(a, b) == (a + b - 1) \div b

\* polls an extraction call with the run's timeout can make at most
MaxPolls == CeilDiv(timeoutSec * 1000, POLL_INTERVAL)

ExtractionCall == pc \in {"poll", "record"} /\ retKind # "connect_error"

MaxEvalLatency == CHOOSE l \in EvalLatencies : \A m \in EvalLatencies : m <= l

Statuses == {"ok", "failed", "no_tab"}

\* C19: the results of a collectAll run are in registry order at every
\* moment, and the results it returns hold exactly one entry per engine of
\* the registry, whatever happened to each engine.
C19_ResultsInRegistryOrder ==
  entry = "collectAll" =>
    /\ Len(responses) <= NumEngines
    /\ \A i \in 1..Len(responses) :
         responses[i].engine = ENGINES[i].name /\ responses[i].status \in Statuses
    /\ pc = "done" => Len(responses) = NumEngines

\* a returned result list in which all three statuses occur
C19_Witness ==
  /\ entry = "collectAll"
  /\ pc = "done"
  /\ Len(responses) = NumEngines
  /\ \A st \in Statuses : \E i \in 1..NumEngines : responses[i].status = st

\* tab k of the discovered list is a page of engine i's site
IsTabOf(k, i) == targets[k].type = "page" /\ targets[k].host = ENGINES[i].urlMatch

HasTab(i) == \E k \in 1..Len(targets) : IsTabOf(k, i)

\* engines the loop has gone past
Processed ==
  IF pc \in {"engine", "poll", "record"} THEN 1..(idx - 1)
  ELSE IF pc \in AfterEngines THEN 1..NumEngines
  ELSE {}

\* engines the loop has reached
Reached == Processed \cup (IF EnginePhase THEN {idx} ELSE {})

\* C20: the tab an extraction call works on is the first tab of the
\* discovered list that is a page of the engine's site; an engine without
\* such a tab gets status no_tab, no session, no file and no place among the
\* synthesis inputs, and only such engines get status no_tab.
C20_FirstMatchingTab ==
  CollectionRun =>
    /\ pc \in {"poll", "record"} =>
         \E k \in 1..Len(targets) :
           /\ targets[k].id = target
           /\ IsTabOf(k, idx)
           /\ \A j \in 1..(k - 1) : ~IsTabOf(j, idx)
    /\ opened <= 1 + Cardinality({ i \in Reached : HasTab(i) })
    /\ ~HasFallbackTab => opened <= Cardinality({ i \in Reached : HasTab(i) })
    /\ \A i \in Processed :
         /\ ~HasTab(i) =>
              /\ ~FileExists(files, EngineFile(i))
              /\ \A n \in 1..Len(responseFiles) : responseFiles[n] # ENGINES[i].name
         /\ entry = "collectAll" => (responses[i].status = "no_tab" <=> ~HasTab(i))

\* two page tabs of the same site are listed and the call works on the first
C20_Witness ==
  /\ entry = "collectAll"
  /\ pc = "poll"
  /\ Len(targets) = 2
  /\ IsTabOf(1, idx) /\ IsTabOf(2, idx)
  /\ target = targets[1].id
  /\ polls >= 1

\* C21 (as stated): once discovery has succeeded the run directory and the
\* query file exist before the first extraction and from then on; a run in
\* which no engine gave a text still ends with the query file and the files
\* of its matched engines in place, and ends as a failure for its caller.
C21_FolderFirstFailureFlagged ==
  CollectionRun =>
    /\ (EnginePhase \/ pc \in AfterEngines) =>
         /\ dirCreated
         /\ Len(files) >= 1
         /\ files[1].name = "prompt.md"
    /\ (pc \in {"done", "exit1"} /\ OkCount = 0) =>
         /\ \A i \in 1..NumEngines : Matched(i) => FileExists(files, EngineFile(i))
         /\ pc = "exit1"


ToUpperChar(c) ==
  IF \E i \in 1..Len(LowerCase) : LowerCase[i] = c
    THEN UpperCase[CHOOSE i \in 1..Len(LowerCase) : LowerCase[i] = c]
    ELSE c

ToUpperCase(s) == [i \in 1..Len(s) |-> ToUpperChar(s[i])]

IsPunctuation(c) == ~IsSlugChar(ToLowerChar(c)) /\ c # " "

WithoutPunctuation(s) == SelectSeq(s, LAMBDA c : ~IsPunctuation(c))

\* every punctuation mark replaced by a different one
OtherPunctuation(s) ==
  [i \in 1..Len(s) |-> IF ~IsPunctuation(s[i]) THEN s[i]
                       ELSE IF s[i] = "?" THEN "-" ELSE "?"]

Slugged == slugRun.applied = 1

SlugIdempotent == slugRun.applied = 2 => slugRun.slug = slugify(slugRun.text)

SlugIgnoresCase ==
  Slugged =>
    /\ slugify(ToUpperCase(slugRun.text)) = slugRun.slug
    /\ slugify(ToLowerCase(slugRun.text)) = slugRun.slug

SlugIgnoresWhichPunctuation ==
  Slugged => slugify(OtherPunctuation(slugRun.text)) = slugRun.slug

\* C22 (as stated): slugify applied to its own result changes nothing, and
\* two queries that differ only in letter case, or only in punctuation (marks
\* exchanged or left out), have the same slug.
C22_PunctuationNeverMatters ==
  /\ SlugIdempotent
  /\ SlugIgnoresCase
  /\ SlugIgnoresWhichPunctuation
  /\ Slugged => slugify(WithoutPunctuation(slugRun.text)) = slugRun.slug

\* C22 (amended): slugify applied to its own result changes nothing, and two
\* queries that differ only in letter case, or only in which punctuation mark
\* stands at each place, have the same slug; a mark left out inside a word
\* changes the slug.
C22_SlugifyCollapses ==
  /\ SlugIdempotent
  /\ SlugIgnoresCase
  /\ SlugIgnoresWhichPunctuation

\* a query with capitals and punctuation, slugged twice, its slug not empty
C22_Witness ==
  /\ slugRun.applied = 2
  /\ slugRun.text # ToLowerCase(slugRun.text)
  /\ slugRun.text # WithoutPunctuation(slugRun.text)
  /\ slugRun.slug # <<>>
  /\ slugRun.slug # slugRun.text

IsHyphen(c) == c = "-"

\* the query as slugify cuts it: lowercased, collapsed, stripped at both ends
BeforeCut(text) ==
  StripTrailing(StripLeading(CollapseNonAlnum(ToLowerCase(text)), "-"), "-")

\* C23: a slug has at most 60 characters, all of them lowercase letters,
\* digits or hyphens, no two hyphens side by side, and no hyphen at either
\* end, also when the cut at 60 characters falls right after a hyphen.
C23_SlugWellFormed ==
  slugRun.applied >= 1 =>
    LET slug == slugRun.slug IN
      /\ Len(slug) <= SlugMaxLen
      /\ \A i \in 1..Len(slug) : IsSlugChar(slug[i]) \/ IsHyphen(slug[i])
      /\ \A i \in 1..(Len(slug) - 1) : ~(IsHyphen(slug[i]) /\ IsHyphen(slug[i + 1]))
      /\ Len(slug) > 0 => ~IsHyphen(slug[1]) /\ ~IsHyphen(slug[Len(slug)])

\* a query whose 60th character, where slugify cuts, is a hyphen
C23_Witness ==
  /\ Slugged
  /\ Len(BeforeCut(slugRun.text)) > SlugMaxLen
  /\ IsHyphen(BeforeCut(slugRun.text)[SlugMaxLen])
  /\ Len(slugRun.slug) = SlugMaxLen - 1


\* body of the file of that name, as last written
BodyOf(fs, name) ==
  fs[CHOOSE k \in 1..Len(fs) :
       fs[k].name = name /\ \A j \in (k + 1)..Len(fs) : fs[j].name # name].body

\* the text a result stands for: what its file holds, or the entry's own text
CollectedText(r) == IF r.file # Absent THEN BodyOf(files, r.file) ELSE r.text

\* the engine_done event of the i-th result ("started" comes first)
EngineDoneOf(i) == events[i + 1]

\* C24: a result has a text, or a character count above zero, only with
\* status ok (or timeout_partial); a failed or no_tab result has null text
\* and its engine_done event reports 0 characters.
C24_TextOnlyWhenOk ==
  entry = "collectAll" =>
    \A i \in 1..Len(responses) :
      LET r == responses[i]
          e == EngineDoneOf(i)
      IN /\ e.type = "engine_done" /\ e.engine = r.engine /\ e.status = r.status
         /\ (CollectedText(r) # Null \/ r.chars > 0 \/ e.chars > 0)
              => r.status \in {"ok", "timeout_partial"}
         /\ r.status \in {"failed", "no_tab"}
              => /\ r.text = Null
                 /\ r.file = Absent
                 /\ FileExists(files, EngineFile(i)) =>
                      BodyOf(files, EngineFile(i)) = NoResponseBody
                 /\ r.chars = 0
                 /\ e.chars = 0

\* a finished run with an ok, a failed and a no_tab result
C24_Witness ==
  /\ entry = "collectAll"
  /\ pc = "done"
  /\ \E i, j, k \in 1..Len(responses) :
       /\ responses[i].status = "ok" /\ responses[i].chars > 0
       /\ responses[j].status = "failed"
       /\ responses[k].status = "no_tab"


\* a step that makes one evaluation of the extraction script
PollStep == polls' = polls + 1

\* the evaluation of this step gave a text, possibly empty
PollGaveText == PollStep /\ lastPoll' # EvalError

\* the evaluation of this step gave a non-empty text equal to lastText
PollMatched == PollGaveText /\ lastPoll' # "" /\ lastPoll' = lastText

Returned == pc = "record" /\ retKind \in {"stable", "partial"}

\* C26: a poll ends the call with a stable result exactly when it brings
\* stableCount to 3; stableCount goes up by one on each poll whose non-empty
\* text equals lastText; the text returned is non-empty, is lastText and is
\* the text of that last poll.
C26_StableAtThreshold ==
  [][PollStep =>
       /\ (retKind' = "stable") <=> (stableCount' = STABLE_CHECKS)
       /\ stableCount < STABLE_CHECKS
       /\ PollMatched => stableCount' = stableCount + 1
       /\ retKind' = "stable" =>
            /\ pc' = "record"
            /\ PollMatched
            /\ ret' \notin {Null, ""}
            /\ ret' = lastText'
            /\ ret' = lastPoll']_vars

\* a call that returned a stable result on its fourth poll
C26_Witness ==
  /\ pc = "record"
  /\ retKind = "stable"
  /\ stableCount = STABLE_CHECKS
  /\ polls = STABLE_CHECKS + 1
  /\ ret = lastText

\* C27 (as stated): a poll that gives a text different from the text the poll
\* before it gave leaves stableCount at 0, also when the text comes back
\* after an empty poll.
C27_AnyChangeResets ==
  [][(PollGaveText /\ lastPoll \notin {Null, EvalError} /\ lastPoll' # lastPoll)
       => stableCount' = 0]_vars

\* C27 (amended): a poll that gives an empty text, or a text different from
\* lastText, leaves stableCount at 0 whatever it was; so does every change
\* after a poll that matched. A text that comes back after empty polls and
\* equals lastText counts as a match.
C27_MismatchResets ==
  [][PollGaveText =>
       /\ stableCount' = (IF PollMatched THEN stableCount + 1 ELSE 0)
       /\ (stableCount >= 1 /\ lastPoll \notin {Null, EvalError} /\ lastPoll' # lastPoll)
            => stableCount' = 0]_vars

\* the text captured before an empty poll has come back and counts as a match
C27_Witness ==
  /\ pc = "poll"
  /\ prevPoll = ""
  /\ lastPoll = "a"
  /\ lastText = "a"
  /\ stableCount = 1
  /\ polls = 3

\* C28 (as stated): when a text is returned, as stable result or at the
\* deadline, the last two polls that gave a text gave the same one.
C28_NeverReturnsAfterChange ==
  (Returned /\ lastPoll # EvalError /\ prevPoll # EvalError) => lastPoll = prevPoll

\* C28 (amended): a stable result is the text of the last poll, and the poll
\* before it gave the same text unless it failed; a deadline result is the
\* last non-empty text captured followed by the note, whatever the last
\* polls gave.
C28_StableResultUnchanged ==
  /\ (pc = "record" /\ retKind = "stable") =>
       /\ ret = lastPoll
       /\ prevPoll \in {ret, EvalError}
  /\ (pc = "record" /\ retKind = "partial") =>
       /\ lastSeen # ""
       /\ ret = lastSeen \o TimeoutNote

\* a deadline result whose text changed on the last poll
C28_Witness ==
  /\ pc = "record"
  /\ retKind = "partial"
  /\ lastPoll = "b"
  /\ prevPoll = "a"
  /\ ret = "b" \o TimeoutNote

\* C29: within a call, lastText once non-empty stays non-empty, and after
\* every poll it is the most recent non-empty text a poll gave.
C29_EmptyNeverOverwrites ==
  [][/\ (pc = "poll" /\ lastText # "") => lastText' # ""
     /\ pc' \in {"poll", "record"} => lastText' = lastSeen'
     /\ (PollGaveText /\ lastPoll' # "") => lastText' = lastPoll'
     /\ (PollStep /\ lastPoll' \in {"", EvalError}) => lastText' = lastText]_vars

\* an empty poll after a captured text
C29_Witness ==
  /\ pc = "poll"
  /\ prevPoll = "a"
  /\ lastPoll = ""
  /\ lastText = "a"

ObserverStep == sseClients' # sseClients \/ sseClosed' # sseClosed

\* events a response has received
ReceivedBy(res) == SelectSeq(events, LAMBDA e : res \in e.to)

\* C25: observers cannot influence a run. A step in which an SSE client
\* connects or closes changes nothing of the run (results, files, events);
\* every event is appended once and written to exactly the clients connected
\* at that moment; with observers coming and going the run still emits the
\* expected event sequence and leaves one result per engine and the files of
\* the matched engines.
C25_ObserversCannotInfluence ==
  /\ [][/\ ObserverStep => UNCHANGED << callVars, apiVars >>
        /\ events' # events =>
             /\ Len(events') = Len(events) + 1
             /\ SubSeq(events', 1, Len(events)) = events
             /\ events'[Len(events')].to = sseClients
             /\ UNCHANGED sseVars]_vars
  /\ [](/\ IsPrefix(EventTypes(events), ExpectedEventTypes(SynthesisAttempted))
        /\ \A k \in 1..Len(events) : events[k].to \subseteq sseClients \cup sseClosed
        /\ pc = "done" =>
             /\ EventTypes(events) = ExpectedEventTypes(SynthesisAttempted)
             /\ Len(responses) = NumEngines
             /\ \A i \in 1..NumEngines :
                  /\ responses[i].engine = ENGINES[i].name
                  /\ responses[i].status = events[i + 1].status
                  /\ Matched(i) <=> FileExists(files, EngineFile(i)))

\* a finished run whose observer connected after "started" and closed before
\* "complete": it received the events in between and no other
C25_Witness ==
  /\ pc = "done"
  /\ sseClosed = {"res1"}
  /\ events[1].to = {}
  /\ events[Len(events)].to = {}
  /\ Len(ReceivedBy("res1")) >= 2
  /\ \E i \in 1..Len(responses) : responses[i].status = "ok"


\* C31: extractFromTab returns null or a non-empty text, never the empty
\* string; collectAll records status ok exactly for a non-null return, and
\* exactly those engines are handed to synthesis.
C31_NullOrNonEmpty ==
  [][/\ pc' = "record" => (ret' = Null \/ Len(ret') > 0)
     /\ (pc = "record" /\ entry = "collectAll") =>
          /\ Len(responses') = Len(responses) + 1
          /\ (LastResponse(responses').status = "ok") <=> (ret # Null)
          /\ LastResponse(responses').status \in {"ok", "failed"}
          /\ responseFiles' = (IF LastResponse(responses').status = "ok"
                                 THEN Append(responseFiles, ENGINES[idx].name)
                                 ELSE responseFiles)]_vars

\* an extraction that found nothing until the deadline returns null, after
\* an earlier engine of the run gave a text
C31_Witness ==
  /\ entry = "collectAll"
  /\ pc = "record"
  /\ retKind = "no_answer"
  /\ ret = Null
  /\ polls >= 1
  /\ Len(responseFiles) >= 1


\* the step calls onProgress("engine_done") for an engine with a matched tab
EmitsEngineDone ==
  /\ Len(events') = Len(events) + 1
  /\ events'[Len(events')].type = "engine_done"
  /\ events'[Len(events')].status # "no_tab"

\* C32 (as stated): when onProgress is called with engine_done for an engine
\* with a matched tab, the engine's file is already in the run directory.
C32_FileWrittenBeforeEvent ==
  [][EmitsEngineDone => FileExists(files, EngineFile(idx))]_vars


\* a step in which sseBroadcast is called
BroadcastStep == lastBroadcast' # lastBroadcast

\* C33 (as stated): the events of overlapping runs are not interleaved: a
\* started event follows no event or a complete event, and every other event
\* follows an event of its own run.
C33_RunsNotInterleaved ==
  [][BroadcastStep =>
       IF lastBroadcast'.type = "started"
         THEN lastBroadcast.type \in {"none", "complete"}
         ELSE lastBroadcast'.run = lastBroadcast.run]_vars


\* C34 (as stated): a run reports a synthesis file exactly when its own
\* synthesis step was attempted and wrote it; a run whose synthesis was
\* skipped or failed reports none and hands none to the viewer.
C34_OwnSynthesisOnly ==
  \A r \in Requests :
    runs[r].pc = "done" =>
      /\ runs[r].synthesisFile <=> runs[r].synthesis = "ok"
      /\ runs[r].synthesis # "ok" => ~runs[r].viewerSynthesis


\* C35 (as stated): whatever the tabs and the fallback tab's title are,
\* the query that extractQuery returns is a non-empty string.
C35_QueryNeverEmpty ==
  entry = "collectAll" /\ pc = "prepare" => Len(query) > 0


\* C36: the tab list is taken once, at the start of the run, and every
\* engine is matched against that list; an engine is recorded as no_tab only
\* when the list holds no tab for it; an engine whose listed tab can no
\* longer be opened ends as failed with its placeholder file written, and
\* the run moves on to the next engine.
C36_MatchOnListedTabs ==
  [][/\ targets' # targets => (pc = "start" /\ listAttempts = 0)
     /\ (/\ Len(responses') = Len(responses) + 1
         /\ LastResponse(responses').status = "no_tab")
          => FindTab(targets, ENGINES[idx].urlMatch).id = 0
     /\ (pc = "engine" /\ FindTab(targets, ENGINES[idx].urlMatch).id # 0)
          => pc' \in {"poll", "record"}
     /\ (pc = "record" /\ retKind = "connect_error") =>
          /\ LastResponse(responses').engine = ENGINES[idx].name
          /\ LastResponse(responses').status = "failed"
          /\ BodyOf(files', EngineFile(idx)) = NoResponseBody
          /\ pc' = NextEnginePc(idx)
          /\ idx' = idx + 1]_vars

C36_Witness ==
  /\ pc = "record"
  /\ retKind = "connect_error"
  /\ idx >= 2
  /\ \E i \in 1..Len(responses) : responses[i].status = "ok"


\* C37: a collectAll run called with doSynthesize = false never invokes the
\* synthesis process, emits no synthesizing event and reports no synthesis
\* file, however many engines succeeded; an omitted option counts as true.
C37_NoSynthesisWhenDisabled ==
  /\ DoSynthesizeOf(Absent)
  /\ ~DoSynthesizeOf("false")
  /\ (entry = "collectAll" /\ ~doSynthesize) =>
       /\ synthCalls = 0
       /\ \A i \in 1..Len(events) : events[i].type # "synthesizing"
       /\ ~synthesisFile
       /\ ~FileExists(files, "synthesis.md")

C37_Witness ==
  /\ entry = "collectAll"
  /\ ~doSynthesize
  /\ pc = "done"
  /\ Len(responseFiles) >= MinSynthesisSources


\* the collection step of the request has done something
CollectionStarted ==
  entry = "collectAll" \/ dirCreated \/ events # <<>> \/ files # <<>> \/ responses # <<>>

\* C38: POST /search submits, then waits, then collects: collectAll is
\* called only when the wait that follows submitAll is over, and by then
\* every submitter has a result; when submitAll rejects (no connection to
\* the browser) nothing of the collection step ever happens and the request
\* is answered with 503.
C38_SubmitWaitCollect ==
  /\ [](CollectionStarted =>
          /\ search.step \in {"collect", "responded"}
          /\ Len(submitted) = NumSubmitters)
  /\ []((search.step = "responded" /\ entry = "submitAll") =>
          (search.status = 503 /\ ~CollectionStarted))
  /\ []((search.status = 200) => (entry = "collectAll" /\ pc = "done"))
  /\ [][/\ (search'.step = "collect" /\ search.step # "collect") =>
             (search.step = "wait" /\ pc' = "start" /\ listAttempts' = 0)
        /\ (search'.step = "wait" /\ search.step # "wait") =>
             (search.step = "submit" /\ Len(submitted) = NumSubmitters)
        /\ (entry = "submitAll" /\ pc = "aborted") =>
             (search'.step = "responded" /\ search'.status = 503)]_vars

C38_Witness ==
  /\ search = [step |-> "responded", status |-> 200]
  /\ \E i \in 1..Len(submitted) : submitted[i].status = "ok"
  /\ \E i \in 1..Len(responses) : responses[i].status = "ok"

\* a request answered 503 because submitAll could not list the tabs
SearchRefused ==
  search = [step |-> "responded", status |-> 503] /\ entry = "submitAll"


\* the characters of folder names in the order of their UTF-16 code units
CodeUnitOrder ==
  <<"-">> \o DigitChars \o <<"T", "_">> \o LowerCase

\* the second in which the run of a listed folder started
SecondOf(name) == (CHOOSE f \in outputDir.folders : f.name = name).second

\* C39: of two run folders made in different seconds the earlier one has
\* the smaller name, character by character, whatever the queries are; and
\* a GET /responses listing is in descending name order, which puts the
\* folders of later seconds first.
C39_NamesSortChronologically ==
  /\ \A f, g \in outputDir.folders :
       f.second < g.second =>
         /\ Compare(CodeUnitOrder, f.name, g.name) < 0
         /\ localeCompare(f.name, g.name) < 0
  /\ \A i, j \in 1..Len(outputDir.listed) :
       i < j =>
         /\ Compare(CodeUnitOrder, outputDir.listed[j], outputDir.listed[i]) < 0
         /\ SecondOf(outputDir.listed[i]) >= SecondOf(outputDir.listed[j])

C39_Witness ==
  /\ Len(outputDir.listed) >= 3
  /\ \E i, j \in 1..Len(outputDir.listed) :
       /\ SecondOf(outputDir.listed[i]) = 9
       /\ SecondOf(outputDir.listed[j]) = 10


\* the text that follows the header separator of the persisted file
AfterHeader(v) == SubSeq(v.file, Len(HeaderOf(v.kind)) + 2, Len(v.file))

\* C40 (as stated): the body generateViewer renders of a result file or of
\* the synthesis file is exactly the text that follows the file's header
\* separator, whether or not that text holds "---" itself.
C40_ViewerStripsOnlyHeader ==
  viewed.rendered => (viewed.body = AfterHeader(viewed) /\ viewed.body = viewed.text)

=============================================================================
